---- MODULE Spec2Model ----
(***************************************************************************)
(* Quiteville: the town simulation (simulation/tick.rs), the zone runtime  *)
(* state (zones/zone.rs), population pressure (population/pressure.rs),    *)
(* the resource formulas (economy/resources.rs) and the player actions     *)
(* (main.rs apply_action, zones/upgrades.rs) as a state machine.           *)
(*                                                                         *)
(* Numbers.  The program computes in f32.  The model computes in fixed     *)
(* point: every f32 quantity (resource stocks, pressure, condition,        *)
(* activity, costs, factors, multipliers) is an integer count of 1/1000    *)
(* ("milli"); per-minute resource rates are counts of 1/1000000 ("micro")  *)
(* so that the small passive rates do not vanish.  Time is counted in game *)
(* minutes (one tick of tick_seconds = 1.0 is one game minute); the f32    *)
(* hour and day quantities of the program are these minutes divided by 60  *)
(* and 1440.                                                               *)
(***************************************************************************)
EXTENDS Integers, Sequences, FiniteSets, TLC

(***************************************************************************)
(* Bounds of the model                                                     *)
(***************************************************************************)
\* number of player/engine steps explored from the initial state
MaxSteps == 3
\* number of starting zones (main.rs adds six; the model takes the first ones)
NumZones == 2

(***************************************************************************)
(* Program constants                                                       *)
(***************************************************************************)
\* one whole unit in fixed point
MILLI == 1000
\* GameConfig::default
population_k == 10000
maintenance_cost_coefficient == 20
tick_rate_seconds == 1
\* PopulationPressure::default: growth_rate 0.1, decay_rate 0.005
growth_rate == 100
decay_rate == 5
\* material_factor / maintenance_factor / stability_factor floor
MIN_FACTOR == 100
\* simulate_ticks: agent cap, campsite capacity, storm damage step and floor
AGENT_CAP == 50
CAMPSITE_CAPACITY == 2000
STORM_DAMAGE == 10
STORM_FLOOR == 500
\* apply_action RestoreZone: restore amount and fallback cost
RESTORE_AMOUNT == 500
DEFAULT_RESTORE_COST == 1000
\* Zone::restore reactivation threshold
REACTIVATE_THRESHOLD == 100
\* Zone::update_activity lerp speed 0.1 (as a divisor)
LERP_DIV == 10
\* GameLog::new(100)
LOG_MAX_ENTRIES == 100
\* SeasonState::DAYS_PER_SEASON in game minutes (12 days)
DAYS_PER_SEASON == 17280
\* minutes in a game day and in a game hour
MIN_PER_DAY == 1440
MIN_PER_HOUR == 60

(***************************************************************************)
(* Fixed-point helpers                                                     *)
(***************************************************************************)
Max(a, b) == IF a >= b THEN a ELSE b
Min(a, b) == IF a <= b THEN a ELSE b
Abs(a) == IF a >= 0 THEN a ELSE 0 - a
Clamp(x, lo, hi) == Max(lo, Min(x, hi))

\* f32::round on a milli value, returning whole units (half away from zero, x >= 0)
RoundUnits(x) == (x + 500) \div 1000

\* integer square root by bisection: the largest r with r * r <= n
RECURSIVE SqrtSearch(_, _, _)
SqrtSearch(n, lo, hi) ==
    IF lo >= hi THEN lo
    ELSE LET mid == (lo + hi + 1) \div 2
         IN  IF mid * mid <= n THEN SqrtSearch(n, mid, hi)
                               ELSE SqrtSearch(n, lo, mid - 1)
ISqrt(n) == SqrtSearch(n, 0, Min(n, 46340))

\* f32::sqrt on a milli value: sqrt(x/1000)*1000 = sqrt(x*1000)
SqrtMilli(x) == ISqrt(Min(x, 2000000) * 1000)

\* f32::ln on a milli value x >= 1000: halve down to [1, 2), then the atanh series
\* ln(m) = 2 (y + y^3/3 + y^5/5 + y^7/7), y = (m - 1)/(m + 1)
LN2 == 693
LnMantissa(m) ==
    LET y  == ((m - 1000) * 1000) \div (m + 1000)
        y2 == (y * y) \div 1000
        y3 == (y2 * y) \div 1000
        y5 == (y3 * y2) \div 1000
        y7 == (y5 * y2) \div 1000
    IN  2 * (y + y3 \div 3 + y5 \div 5 + y7 \div 7)
RECURSIVE LnMilli(_)
LnMilli(x) ==
    IF x < 2000 THEN LnMantissa(Max(x, 1000))
    ELSE LN2 + LnMilli(x \div 2)

\* division truncating toward zero, as an f32 product cast would lose its fraction
DivTrunc(a, b) == IF a >= 0 THEN a \div b ELSE 0 - ((0 - a) \div b)

(***************************************************************************)
(* Zone templates (data/zone_template.rs).  The values come from           *)
(* assets/zones.json in the program; the model takes a small table with    *)
(* one residential zone, one producing zone with upkeep, one cultural zone *)
(* and one upgrade target locked by a technology.                          *)
(***************************************************************************)
NoDelta == [materials |-> 0, maintenance |-> 0, attractiveness |-> 0, stability |-> 0]

NONE == "none"

zone_templates ==
    << [id |-> "old_homestead", category |-> "Residential",
        base_throughput |-> 1000, construction_cost |-> 500, saturation_bias |-> 500,
        output |-> [NoDelta EXCEPT !.attractiveness = 20, !.stability = 10],
        upkeep |-> [NoDelta EXCEPT !.materials = 20],
        capacity |-> 5000, natural_rate |-> 1, neglect_threshold |-> 100,
        locked_by_tech |-> NONE, upgrade_to |-> "cottage"],
       [id |-> "scavengers_workshop", category |-> "Infrastructure",
        base_throughput |-> 1000, construction_cost |-> 1000, saturation_bias |-> 500,
        output |-> [NoDelta EXCEPT !.materials = 50],
        upkeep |-> [NoDelta EXCEPT !.maintenance = 20, !.stability = 5],
        capacity |-> 0, natural_rate |-> 1, neglect_threshold |-> 100,
        locked_by_tech |-> NONE, upgrade_to |-> NONE],
       [id |-> "village_green", category |-> "Cultural",
        base_throughput |-> 500, construction_cost |-> 500, saturation_bias |-> 300,
        output |-> [NoDelta EXCEPT !.attractiveness = 40],
        upkeep |-> [NoDelta EXCEPT !.maintenance = 5],
        capacity |-> 0, natural_rate |-> 2, neglect_threshold |-> 100,
        locked_by_tech |-> NONE, upgrade_to |-> NONE],
       [id |-> "cottage", category |-> "Residential",
        base_throughput |-> 1000, construction_cost |-> 3000, saturation_bias |-> 500,
        output |-> [NoDelta EXCEPT !.attractiveness = 40, !.stability = 20],
        upkeep |-> [NoDelta EXCEPT !.materials = 30],
        capacity |-> 10000, natural_rate |-> 1, neglect_threshold |-> 100,
        locked_by_tech |-> "masonry", upgrade_to |-> NONE] >>

\* state.zone_templates.iter().find(|t| t.id == id): 0 when there is none
RECURSIVE FindTemplateFrom(_, _)
FindTemplateFrom(id, i) ==
    IF i > Len(zone_templates) THEN 0
    ELSE IF zone_templates[i].id = id THEN i
    ELSE FindTemplateFrom(id, i + 1)
get_template(id) == FindTemplateFrom(id, 1)
HasTemplate(id) == get_template(id) # 0
TemplateOf(id) == zone_templates[get_template(id)]

\* main.rs initialize_game: the starting zones, in order
zones_to_add == << "old_homestead", "scavengers_workshop", "village_green" >>

(***************************************************************************)
(* Zone runtime state (zones/zone.rs)                                      *)
(***************************************************************************)
\* Zone::new: starts dormant, needs restoration
ZoneNew(template_id) ==
    [template_id |-> template_id, condition |-> 0, activity |-> 0, dormant |-> TRUE,
     reawakening_stage |-> 0, construction_state |-> "None",
     work_done |-> 0, materials_deposited |-> FALSE]

\* Zone::new_under_construction
new_under_construction(template_id) ==
    [ZoneNew(template_id) EXCEPT !.construction_state = "UnderConstruction"]

is_under_construction(zone) == zone.construction_state = "UnderConstruction"

\* Zone::calculate_throughput without the under-construction test
calculate_throughput_dormant_only(zone, template) ==
    IF zone.dormant THEN 0
    ELSE LET saturation == (zone.activity * MILLI) \div (zone.activity + template.saturation_bias)
         IN  (((template.base_throughput * zone.condition) \div MILLI) * saturation) \div MILLI

\* Zone::calculate_throughput: base * condition * activity / (activity + bias)
calculate_throughput(zone, template) ==
    IF zone.dormant \/ is_under_construction(zone) THEN 0
    ELSE LET saturation == (zone.activity * MILLI) \div (zone.activity + template.saturation_bias)
         IN  (((template.base_throughput * zone.condition) \div MILLI) * saturation) \div MILLI

\* Zone::should_go_dormant
should_go_dormant(zone, template) == zone.condition < template.neglect_threshold

\* Zone::apply_decay without the floor at 0
apply_decay_unfloored(zone, template, delta_time) ==
    IF ~zone.dormant /\ ~is_under_construction(zone)
    THEN [zone EXCEPT !.condition = zone.condition - template.natural_rate * delta_time]
    ELSE zone

\* Zone::apply_decay
apply_decay(zone, template, delta_time) ==
    IF ~zone.dormant /\ ~is_under_construction(zone)
    THEN [zone EXCEPT !.condition = Max(zone.condition - template.natural_rate * delta_time, 0)]
    ELSE zone

\* Zone::restore without the cap at 1.0
restore_uncapped(zone, amount) ==
    LET c == zone.condition + amount
    IN  [zone EXCEPT !.condition = c,
                     !.dormant = IF zone.dormant /\ c > REACTIVATE_THRESHOLD
                                 THEN FALSE ELSE zone.dormant]

\* Zone::restore
restore(zone, amount) ==
    LET c == Min(zone.condition + amount, MILLI)
    IN  [zone EXCEPT !.condition = c,
                     !.dormant = IF zone.dormant /\ c > REACTIVATE_THRESHOLD
                                 THEN FALSE ELSE zone.dormant]

\* Zone::update_activity that also wakes a zone once it is in use
update_activity_waking(zone, effective_pop) ==
    LET a == Clamp(zone.activity + DivTrunc(effective_pop - zone.activity, LERP_DIV), 0, MILLI)
    IN  [zone EXCEPT !.activity = a, !.dormant = IF a > 0 THEN FALSE ELSE zone.dormant]

\* Zone::update_activity
update_activity(zone, effective_pop) ==
    [zone EXCEPT !.activity =
        Clamp(zone.activity + DivTrunc(effective_pop - zone.activity, LERP_DIV), 0, MILLI)]

\* Zone::apply_construction_work, the value it returns: TRUE when construction completed
construction_work_completes(zone, work_amount, required_work) ==
    /\ is_under_construction(zone)
    /\ zone.materials_deposited
    /\ zone.work_done + work_amount >= required_work

\* Zone::apply_construction_work that works without materials
apply_construction_work_unpaid(zone, work_amount, required_work) ==
    IF ~is_under_construction(zone) THEN zone
    ELSE IF zone.work_done + work_amount >= required_work
    THEN [zone EXCEPT !.construction_state = "Complete", !.work_done = 0,
                      !.materials_deposited = FALSE, !.condition = MILLI,
                      !.dormant = FALSE, !.reawakening_stage = 1]
    ELSE [zone EXCEPT !.work_done = @ + work_amount]

\* Zone::apply_construction_work that only adds up the work
apply_construction_work_unfinished(zone, work_amount, required_work) ==
    IF ~is_under_construction(zone) \/ ~zone.materials_deposited THEN zone
    ELSE [zone EXCEPT !.work_done = @ + work_amount]

\* Zone::apply_construction_work, the zone afterwards.  A Complete zone carries no
\* work_done and no materials_deposited: the model resets the two fields.
apply_construction_work(zone, work_amount, required_work) ==
    IF ~is_under_construction(zone) THEN zone
    ELSE IF ~zone.materials_deposited THEN zone
    ELSE IF zone.work_done + work_amount >= required_work
    THEN [zone EXCEPT !.construction_state = "Complete", !.work_done = 0,
                      !.materials_deposited = FALSE, !.condition = MILLI,
                      !.dormant = FALSE, !.reawakening_stage = 1]
    ELSE [zone EXCEPT !.work_done = @ + work_amount]

\* Zone::deposit_construction_materials
deposit_construction_materials(zone) ==
    IF is_under_construction(zone) THEN [zone EXCEPT !.materials_deposited = TRUE] ELSE zone

(***************************************************************************)
(* Core formulas (economy/resources.rs)                                    *)
(***************************************************************************)
\* P / K cut at 1 in place of P / (P + K)
effective_population_linear(pressure, k) ==
    IF pressure <= 0 THEN 0 ELSE Min((pressure * MILLI) \div k, MILLI)

\* P / (P + K)
effective_population(pressure, k) ==
    IF pressure <= 0 THEN 0 ELSE (pressure * MILLI) \div (pressure + k)

\* M / (M + 1) without the floor
material_factor_unfloored(materials) ==
    IF materials <= 0 THEN 0
    ELSE (materials * MILLI) \div (materials + MILLI)

\* M / (M + 1), at least 0.1
material_factor(materials) ==
    IF materials <= 0 THEN MIN_FACTOR
    ELSE Max((materials * MILLI) \div (materials + MILLI), MIN_FACTOR)

\* sqrt(M) / (sqrt(M) + 1) without the floor
maintenance_factor_unfloored(maintenance) ==
    IF maintenance <= 0 THEN 0
    ELSE LET sqrt_m == SqrtMilli(maintenance)
         IN  (sqrt_m * MILLI) \div (sqrt_m + MILLI)

\* sqrt(M) / (sqrt(M) + 1), at least 0.1
maintenance_factor(maintenance) ==
    IF maintenance <= 0 THEN MIN_FACTOR
    ELSE LET sqrt_m == SqrtMilli(maintenance)
         IN  Max((sqrt_m * MILLI) \div (sqrt_m + MILLI), MIN_FACTOR)

\* ln(S + 1) / ln(S + 2), at least 0.1
stability_factor(stability) ==
    IF stability <= 0 THEN MIN_FACTOR
    ELSE Max((LnMilli(stability + MILLI) * MILLI) \div LnMilli(stability + 2 * MILLI), MIN_FACTOR)

\* base * material_factor * maintenance_factor * stability_factor.
\* base is in milli, the product of the three factors in milli, the result in micro.
calculate_output(base, res) ==
    base * ((material_factor(res.materials) * maintenance_factor(res.maintenance)
             * stability_factor(res.stability)) \div (MILLI * MILLI))

\* coefficient * effective_pop^2, in micro per minute
maintenance_cost(effective_pop, coefficient) ==
    (coefficient * effective_pop * effective_pop) \div MILLI

\* output * ln(hours_away + 1); output in micro, hours in minutes, result in micro
offline_gain(output, minutes_away) ==
    (output * LnMilli((minutes_away * MILLI) \div MIN_PER_HOUR + MILLI)) \div MILLI

\* Resources::apply_delta without the floor
resources_apply_delta_unfloored(res, delta) ==
    [materials      |-> res.materials + delta.materials,
     maintenance    |-> res.maintenance + delta.maintenance,
     attractiveness |-> res.attractiveness + delta.attractiveness,
     stability      |-> res.stability + delta.stability]

\* Resources::apply_delta: add, then floor every stock at 0
resources_apply_delta(res, delta) ==
    [materials      |-> Max(res.materials + delta.materials, 0),
     maintenance    |-> Max(res.maintenance + delta.maintenance, 0),
     attractiveness |-> Max(res.attractiveness + delta.attractiveness, 0),
     stability      |-> Max(res.stability + delta.stability, 0)]

(***************************************************************************)
(* Population pressure (population/pressure.rs)                            *)
(***************************************************************************)
\* PopulationPressure::tick without the final max(0.0)
population_tick_unfloored(pressure, attractiveness, capacity, delta_time) ==
    LET space_factor == IF capacity > 0
                        THEN Max(MILLI - (pressure * MILLI) \div capacity, 0)
                        ELSE 0
        rate == (((growth_rate * attractiveness) \div MILLI) * space_factor) \div 100
        growth == (rate * delta_time) \div 10
        overcrowding_factor == IF pressure > capacity
                               THEN MILLI + (pressure - capacity) \div 10
                               ELSE MILLI
        decay == (decay_rate * overcrowding_factor * delta_time) \div MILLI
    IN  pressure + growth - decay

\* PopulationPressure::tick whose growth ignores the housing capacity
population_tick_unbounded(pressure, attractiveness, capacity, delta_time) ==
    LET rate == (((growth_rate * attractiveness) \div MILLI) * MILLI) \div 100
        growth == (rate * delta_time) \div 10
        overcrowding_factor == IF pressure > capacity
                               THEN MILLI + (pressure - capacity) \div 10
                               ELSE MILLI
        decay == (decay_rate * overcrowding_factor * delta_time) \div MILLI
    IN  Max(pressure + growth - decay, 0)

\* PopulationPressure::tick
population_tick(pressure, attractiveness, capacity, delta_time) ==
    LET space_factor == IF capacity > 0
                        THEN Max(MILLI - (pressure * MILLI) \div capacity, 0)
                        ELSE 0
        rate == (((growth_rate * attractiveness) \div MILLI) * space_factor) \div 100
        growth == (rate * delta_time) \div 10
        overcrowding_factor == IF pressure > capacity
                               THEN MILLI + (pressure - capacity) \div 10
                               ELSE MILLI
        decay == (decay_rate * overcrowding_factor * delta_time) \div MILLI
    IN  Max(pressure + growth - decay, 0)

\* PopulationPressure::apply_delta
population_apply_delta(pressure, delta) == Max(pressure + delta, 0)

(***************************************************************************)
(* Technology tree (data/tech.rs)                                          *)
(***************************************************************************)
\* default_tech_tree: every node starts locked
default_tech_tree ==
    << [id |-> "masonry", cost |-> 5000, parent_id |-> NONE, unlocked |-> FALSE,
        effect |-> "ProductionMulti", value |-> 1100],
       [id |-> "logistics", cost |-> 15000, parent_id |-> "masonry", unlocked |-> FALSE,
        effect |-> "EfficiencyMulti", value |-> 850],
       [id |-> "urban_planning", cost |-> 20000, parent_id |-> "masonry", unlocked |-> FALSE,
        effect |-> "AttractivenessFlat", value |-> 500],
       [id |-> "insulation", cost |-> 50000, parent_id |-> "urban_planning", unlocked |-> FALSE,
        effect |-> "HousingGlobal", value |-> 5000],
       [id |-> "automation", cost |-> 75000, parent_id |-> "logistics", unlocked |-> FALSE,
        effect |-> "ProductionMulti", value |-> 1250] >>

\* the fold taken over every node, locked or not
RECURSIVE TechBonusesFromAll(_, _, _)
TechBonusesFromAll(tree, i, acc) ==
    IF i > Len(tree) THEN acc
    ELSE LET t == tree[i]
             next == IF t.effect = "ProductionMulti"
                          THEN [acc EXCEPT !.production_multi = (@ * t.value) \div MILLI]
                     ELSE IF t.effect = "EfficiencyMulti"
                          THEN [acc EXCEPT !.maintenance_factor = (@ * t.value) \div MILLI]
                     ELSE IF t.effect = "AttractivenessFlat"
                          THEN [acc EXCEPT !.attractiveness_flat = @ + t.value]
                     ELSE [acc EXCEPT !.housing_flat = @ + t.value]
         IN  TechBonusesFromAll(tree, i + 1, next)

\* simulate_ticks, "TECH BONUSES": fold over the unlocked nodes, in order
RECURSIVE TechBonusesFrom(_, _, _)
TechBonusesFrom(tree, i, acc) ==
    IF i > Len(tree) THEN acc
    ELSE LET t == tree[i]
             next == IF ~t.unlocked THEN acc
                     ELSE IF t.effect = "ProductionMulti"
                          THEN [acc EXCEPT !.production_multi = (@ * t.value) \div MILLI]
                     ELSE IF t.effect = "EfficiencyMulti"
                          THEN [acc EXCEPT !.maintenance_factor = (@ * t.value) \div MILLI]
                     ELSE IF t.effect = "AttractivenessFlat"
                          THEN [acc EXCEPT !.attractiveness_flat = @ + t.value]
                     ELSE [acc EXCEPT !.housing_flat = @ + t.value]
         IN  TechBonusesFrom(tree, i + 1, next)

\* TechBonuses::default
TechBonusesDefault ==
    [production_multi |-> MILLI, maintenance_factor |-> MILLI,
     attractiveness_flat |-> 0, housing_flat |-> 0]

TechBonuses(tree) == TechBonusesFrom(tree, 1, TechBonusesDefault)

(***************************************************************************)
(* Seasons and weather (simulation/seasons.rs)                             *)
(***************************************************************************)
Seasons == {"Spring", "Summer", "Autumn", "Winter"}

season_next(s) ==
    CASE s = "Spring" -> "Summer" [] s = "Summer" -> "Autumn"
      [] s = "Autumn" -> "Winter" [] OTHER -> "Spring"

farm_growth_multiplier(s) ==
    CASE s = "Spring" -> 1500 [] s = "Summer" -> 1200 [] s = "Autumn" -> 800 [] OTHER -> 0

movement_multiplier(s) ==
    CASE s = "Spring" -> 1000 [] s = "Summer" -> 1100 [] s = "Autumn" -> 950 [] OTHER -> 800

movement_penalty(w) ==
    CASE w = "Sunny" -> 1000 [] w = "Cloudy" -> 1000 [] w = "Rain" -> 900
      [] w = "Storm" -> 700 [] w = "Snow" -> 750 [] OTHER -> 850

\* building_damage_chance: 2% per hour in a storm, in milli
building_damage_chance(w) == IF w = "Storm" THEN 20 ELSE 0

\* roll_new_weather: the weathers the roll can give in a season
WeatherOf(s) ==
    CASE s = "Spring" -> {"Sunny", "Cloudy", "Rain", "Fog"}
      [] s = "Summer" -> {"Sunny", "Cloudy", "Storm"}
      [] s = "Autumn" -> {"Sunny", "Cloudy", "Rain", "Fog", "Storm"}
      [] OTHER -> {"Sunny", "Cloudy", "Snow", "Fog"}

\* SeasonState::update; roll is the outcome of roll_new_weather when it is called
season_update(ss, game_minutes, roll) ==
    LET day == ss.day_in_season + game_minutes
        dur == ss.weather_duration - game_minutes
        rolled == dur <= 0
        changed == day >= DAYS_PER_SEASON
    IN  [state |-> [season |-> IF changed THEN season_next(ss.season) ELSE ss.season,
                    day_in_season |-> IF changed THEN day - DAYS_PER_SEASON ELSE day,
                    weather |-> IF rolled THEN roll.weather ELSE ss.weather,
                    weather_duration |-> IF rolled THEN roll.duration ELSE dur],
         changed |-> changed]

(***************************************************************************)
(* Game log (narrative/log.rs): the number of entries held                 *)
(***************************************************************************)
\* GameLog::add n times: push, then drop the oldest beyond max_entries
log_add(len, n) == Min(len + n, LOG_MAX_ENTRIES)

(***************************************************************************)
(* GameState helpers (data/state.rs).  A game state st is a record of the  *)
(* fields of GameState the simulation reads and writes.                    *)
(***************************************************************************)
\* state.zones.iter().filter(|z| !z.dormant).count()
RECURSIVE ActiveZonesFrom(_, _)
ActiveZonesFrom(zs, i) ==
    IF i > Len(zs) THEN 0
    ELSE (IF zs[i].dormant THEN 0 ELSE 1) + ActiveZonesFrom(zs, i + 1)
active_zones(zs) == ActiveZonesFrom(zs, 1)

\* GameState::calculate_housing_capacity: capacity * condition over non-dormant zones
RECURSIVE HousingFrom(_, _)
HousingFrom(zs, i) ==
    IF i > Len(zs) THEN 0
    ELSE (IF ~zs[i].dormant /\ HasTemplate(zs[i].template_id)
          THEN (TemplateOf(zs[i].template_id).capacity * zs[i].condition) \div MILLI
          ELSE 0) + HousingFrom(zs, i + 1)
calculate_housing_capacity(zs) == HousingFrom(zs, 1)

\* the multiplier simulate_ticks gives a zone: calculate_output(throughput, resources), in micro
zone_multiplier(zone, res) ==
    IF HasTemplate(zone.template_id)
    THEN calculate_output(calculate_throughput(zone, TemplateOf(zone.template_id)), res)
    ELSE 0

\* GameState::calculate_total_output, in micro
RECURSIVE TotalOutputFrom(_, _, _)
TotalOutputFrom(zs, res, i) ==
    IF i > Len(zs) THEN 0
    ELSE zone_multiplier(zs[i], res) + TotalOutputFrom(zs, res, i + 1)
calculate_total_output(zs, res) == TotalOutputFrom(zs, res, 1)

\* GameState::calculate_maintenance_cost, in micro per minute
calculate_maintenance_cost(pressure) ==
    maintenance_cost(effective_population(pressure, population_k), maintenance_cost_coefficient)

\* simulate_ticks, the loop over state.zones: what one zone adds to total_output
\* (micro per minute).  A dormant zone is skipped.
zone_output(zone, res, bonuses) ==
    IF zone.dormant \/ ~HasTemplate(zone.template_id) THEN NoDelta
    ELSE LET t == TemplateOf(zone.template_id)
             multiplier == zone_multiplier(zone, res)
         IN  [materials |-> (((t.output.materials * multiplier) \div MILLI)
                              * bonuses.production_multi) \div MILLI,
              maintenance |-> (t.output.maintenance * multiplier) \div MILLI,
              attractiveness |-> (t.output.attractiveness * multiplier) \div MILLI,
              stability |-> (t.output.stability * multiplier) \div MILLI]

\* simulate_ticks, the loop over state.zones: what one zone adds to total_upkeep
zone_upkeep(zone, bonuses) ==
    IF zone.dormant \/ ~HasTemplate(zone.template_id) THEN NoDelta
    ELSE LET t == TemplateOf(zone.template_id)
         IN  [materials |-> t.upkeep.materials * bonuses.maintenance_factor,
              maintenance |-> t.upkeep.maintenance * bonuses.maintenance_factor,
              attractiveness |-> t.upkeep.attractiveness * bonuses.maintenance_factor,
              stability |-> t.upkeep.stability * bonuses.maintenance_factor]

DeltaAdd(a, b) ==
    [materials |-> a.materials + b.materials, maintenance |-> a.maintenance + b.maintenance,
     attractiveness |-> a.attractiveness + b.attractiveness,
     stability |-> a.stability + b.stability]

RECURSIVE ZonesOutputFrom(_, _, _, _)
ZonesOutputFrom(zs, res, bonuses, i) ==
    IF i > Len(zs) THEN NoDelta
    ELSE DeltaAdd(zone_output(zs[i], res, bonuses), ZonesOutputFrom(zs, res, bonuses, i + 1))

RECURSIVE ZonesUpkeepFrom(_, _, _)
ZonesUpkeepFrom(zs, bonuses, i) ==
    IF i > Len(zs) THEN NoDelta
    ELSE DeltaAdd(zone_upkeep(zs[i], bonuses), ZonesUpkeepFrom(zs, bonuses, i + 1))

\* simulate_ticks, "Apply random building damage during storms"
storm_damage(zs) ==
    [i \in 1..Len(zs) |->
        IF ~zs[i].dormant
        THEN [zs[i] EXCEPT !.condition = Max(zs[i].condition - STORM_DAMAGE, STORM_FLOOR)]
        ELSE zs[i]]

\* Agent::new(...).with_job(Job::Laborer).with_home(...): the roster entry of a spawned agent
\* updates counts the Agent::update calls the agent has received
NewAgent == [job |-> "Laborer", state |-> "Idle", updates |-> 0]

\* simulate_ticks, "AGENT SIMULATION": target count, then spawn or despawn to match it
target_agents(pressure) == Min(RoundUnits(pressure), AGENT_CAP)

\* the reconciliation without its despawn loop
reconcile_agents_spawn_only(agents, target) ==
    IF Len(agents) < target
    THEN agents \o [i \in 1..(target - Len(agents)) |-> NewAgent]
    ELSE agents

reconcile_agents(agents, target) ==
    IF Len(agents) < target
    THEN agents \o [i \in 1..(target - Len(agents)) |-> NewAgent]
    ELSE SubSeq(agents, 1, target)

\* simulate_ticks, "Update Agents": agent.update(agent_delta, &world_info) on every agent
\* of the roster
step_agents(agents) == [i \in 1..Len(agents) |-> [agents[i] EXCEPT !.updates = @ + 1]]

\* the agents stepped before the roster is reconciled
roster_step_early(agents, target) == reconcile_agents(step_agents(agents), target)

\* simulate_ticks, lines 351-436: the roster is reconciled, then every agent is stepped
roster_step(agents, target) == step_agents(reconcile_agents(agents, target))

\* update_stats_and_achievements: the achievements whose condition holds.  It reads the
\* stocks before the batch's delta is applied and the pressure after the population
\* update.  The dynasty achievements depend on state outside the model and stay locked.
RECURSIVE HasActiveResidentialFrom(_, _)
HasActiveResidentialFrom(zs, i) ==
    IF i > Len(zs) THEN FALSE
    ELSE (~zs[i].dormant /\ HasTemplate(zs[i].template_id)
          /\ TemplateOf(zs[i].template_id).category = "Residential")
         \/ HasActiveResidentialFrom(zs, i + 1)

earned_achievements(st) ==
    LET pop == st.population \div MILLI
        mats == st.resources.materials
        active == active_zones(st.zones)
        days == st.game_time_hours \div MIN_PER_DAY
    IN  {a \in {"GrowingCommunity", "FirstHundred", "TownProper", "Hoarder", "Wealthy",
                "Millionaire", "FirstHouse", "SettlerSpirit", "Builder", "MasterBuilder",
                "Utopia", "Dedicated", "Veteran", "WinterSurvivor", "Scholar"} :
           \/ a = "GrowingCommunity" /\ pop >= 50
           \/ a = "FirstHundred" /\ pop >= 100
           \/ a = "TownProper" /\ pop >= 500
           \/ a = "Hoarder" /\ mats >= 1000 * MILLI
           \/ a = "Wealthy" /\ mats >= 10000 * MILLI
           \/ a = "Millionaire" /\ mats >= 100000 * MILLI
           \/ a = "FirstHouse" /\ active >= 1 /\ HasActiveResidentialFrom(st.zones, 1)
           \/ a = "SettlerSpirit" /\ active >= 10
           \/ a = "Builder" /\ active >= 25
           \/ a = "MasterBuilder" /\ active >= 50
           \/ a = "Utopia" /\ st.resources.stability > 800 /\ st.resources.attractiveness > 800
           \/ a = "Dedicated" /\ days >= 10
           \/ a = "Veteran" /\ days >= 100
           \/ a = "WinterSurvivor" /\ st.season_state.season = "Spring"
                                   /\ st.season_state.day_in_season < MIN_PER_DAY
                                   /\ st.winters_survived = 0
           \/ a = "Scholar" /\ Len(st.tech_tree) > 0
                            /\ \A i \in 1..Len(st.tech_tree) : st.tech_tree[i].unlocked}

update_stats_and_achievements(st) ==
    LET fresh == earned_achievements(st) \ st.achievements
    IN  [st EXCEPT !.achievements = @ \cup fresh,
                   !.winters_survived = IF "WinterSurvivor" \in earned_achievements(st)
                                        THEN 1 ELSE @,
                   !.log = log_add(@, Cardinality(fresh))]

(***************************************************************************)
(* simulate_ticks (simulation/tick.rs): one batch of num_ticks ticks.      *)
(* rnd carries the random draws of the batch: the weather roll (weather,   *)
(* duration) and whether the storm damage draw hits (storm).               *)
(***************************************************************************)
\* the storm damage draw rand < chance * game_minutes / 60 can only hit in a storm, and
\* must hit once the right-hand side reaches 1
storm_can_hit(weather, game_minutes) == building_damage_chance(weather) > 0

storm_must_hit(weather, game_minutes) ==
    building_damage_chance(weather) * game_minutes >= MILLI * MIN_PER_HOUR

\* the batch from "Calculate total housing capacity" on, given the tech bonuses
simulate_ticks_given(st, num_ticks, tick_seconds, rnd, bonuses) ==
    IF num_ticks = 0 THEN st
    ELSE
    LET game_minutes == num_ticks * tick_seconds
        \* game time, season and weather
        su == season_update(st.season_state, game_minutes, rnd)
        \* tech bonuses, housing, population
        active == active_zones(st.zones)
        housing_capacity == calculate_housing_capacity(st.zones) + bonuses.housing_flat
                            + CAMPSITE_CAPACITY
        pressure == population_tick(st.population,
                        (st.resources.attractiveness * (2 + active)) \div 2,
                        housing_capacity, game_minutes)
        \* weather modifiers and storm damage
        season == su.state.season
        weather == su.state.weather
        farm_mult == farm_growth_multiplier(season)
        move_mult == (movement_multiplier(season) * (MILLI - movement_penalty(weather)))
                     \div MILLI
        hit == storm_must_hit(weather, game_minutes)
               \/ (storm_can_hit(weather, game_minutes) /\ rnd.storm)
        zs == IF hit THEN storm_damage(st.zones) ELSE st.zones
        \* passive gathering, in micro per minute
        base_rate_per_min == (((((10 * MILLI * MILLI) \div MIN_PER_DAY)
                                * bonuses.production_multi) \div MILLI) * farm_mult) \div MILLI
        pop_rate_per_min == (((((200 * SqrtMilli(pressure)) \div MIN_PER_DAY)
                               * bonuses.production_multi) \div MILLI) * move_mult) \div MILLI
        passive == [NoDelta EXCEPT !.materials = base_rate_per_min + pop_rate_per_min,
                                   !.attractiveness = bonuses.attractiveness_flat]
        total_output == DeltaAdd(passive, ZonesOutputFrom(zs, st.resources, bonuses, 1))
        total_upkeep == ZonesUpkeepFrom(zs, bonuses, 1)
        \* net change (output - upkeep) * game time, soft-cap decay, maintenance cost
        maint_cost == calculate_maintenance_cost(pressure) * game_minutes
        net_delta ==
            [materials |-> DivTrunc((total_output.materials - total_upkeep.materials)
                                    * game_minutes, MILLI),
             maintenance |-> DivTrunc((total_output.maintenance - total_upkeep.maintenance)
                                      * game_minutes - maint_cost, MILLI),
             attractiveness |-> DivTrunc((total_output.attractiveness
                                          - total_upkeep.attractiveness) * game_minutes, MILLI)
                                - (st.resources.attractiveness * game_minutes) \div MILLI,
             stability |-> DivTrunc((total_output.stability - total_upkeep.stability)
                                    * game_minutes, MILLI)
                           - (st.resources.stability * game_minutes) \div MILLI]
        st1 == [st EXCEPT !.game_time_hours = @ + game_minutes,
                          !.season_state = su.state,
                          !.log = log_add(@, IF su.changed THEN 1 ELSE 0),
                          !.population = pressure,
                          !.zones = zs,
                          !.agents = roster_step(@, target_agents(pressure)),
                          !.game_hour = (@ + game_minutes) % MIN_PER_DAY]
        st2 == update_stats_and_achievements(st1)
    IN  [st2 EXCEPT !.resources = resources_apply_delta(@, net_delta)]

\* simulate_ticks: the tech bonuses are folded from the tech tree as the batch finds it
simulate_ticks(st, num_ticks, tick_seconds, rnd) ==
    simulate_ticks_given(st, num_ticks, tick_seconds, rnd, TechBonuses(st.tech_tree))

(***************************************************************************)
(* process_offline_time (simulation/tick.rs); the time away is in minutes  *)
(***************************************************************************)
process_offline_time(st, offline_minutes) ==
    IF offline_minutes <= 0 THEN st
    ELSE
    LET base_output == calculate_total_output(st.zones, st.resources)
        gain == offline_gain(base_output, offline_minutes)
        attr == st.resources.attractiveness + gain \div (5 * MILLI)
        pop_growth == (offline_minutes * attr) \div (10 * MIN_PER_HOUR)
    IN  [st EXCEPT !.resources.materials = @ + gain \div (2 * MILLI),
                   !.resources.attractiveness = attr,
                   !.population = population_apply_delta(@, pop_growth),
                   !.log = log_add(@, 1),
                   !.game_time_hours = @ + offline_minutes]

(***************************************************************************)
(* Player actions (main.rs apply_action, zones/upgrades.rs).  Zone indices *)
(* are the program's: 0 is the first zone.                                 *)
(***************************************************************************)
ValidIndex(st, index) == index >= 0 /\ index < Len(st.zones)
ZoneAt(st, index) == st.zones[index + 1]

\* apply_action, PlayerAction::RestoreZone: the cost it charges
restore_cost(st, index) ==
    IF ValidIndex(st, index) /\ HasTemplate(ZoneAt(st, index).template_id)
    THEN TemplateOf(ZoneAt(st, index).template_id).construction_cost
    ELSE DEFAULT_RESTORE_COST

\* PlayerAction::RestoreZone(index) without the "already fully restored" return
apply_restore_zone_always(st, index) ==
    LET cost == restore_cost(st, index)
    IN  IF st.resources.materials < cost
        THEN [st EXCEPT !.log = log_add(@, 1)]
        ELSE IF ~ValidIndex(st, index) THEN st
        ELSE [st EXCEPT !.resources.materials = @ - cost,
                        !.zones[index + 1] = restore(@, RESTORE_AMOUNT),
                        !.log = log_add(@, 1)]

\* apply_action, PlayerAction::RestoreZone(index)
apply_restore_zone(st, index) ==
    LET cost == restore_cost(st, index)
    IN  IF st.resources.materials < cost
        THEN [st EXCEPT !.log = log_add(@, 1)]
        ELSE IF ~ValidIndex(st, index) THEN st
        ELSE IF ZoneAt(st, index).condition >= MILLI
        THEN [st EXCEPT !.log = log_add(@, 1)]
        ELSE [st EXCEPT !.resources.materials = @ - cost,
                        !.zones[index + 1] = restore(@, RESTORE_AMOUNT),
                        !.log = log_add(@, 1)]

\* state.tech_tree.iter().position(|t| t.id == id): 0 when there is none
RECURSIVE TechPositionFrom(_, _, _)
TechPositionFrom(tree, id, i) ==
    IF i > Len(tree) THEN 0
    ELSE IF tree[i].id = id THEN i
    ELSE TechPositionFrom(tree, id, i + 1)
tech_position(tree, id) == TechPositionFrom(tree, id, 1)

\* PlayerAction::Research(id) that unlocks whenever the id is known and charges only
\* when the cost is affordable
apply_research_free(st, id) ==
    LET pos == tech_position(st.tech_tree, id)
    IN  IF pos = 0 THEN st
        ELSE IF st.resources.materials >= st.tech_tree[pos].cost
        THEN [st EXCEPT !.resources.materials = @ - st.tech_tree[pos].cost,
                        !.tech_tree[pos].unlocked = TRUE,
                        !.log = log_add(@, 1)]
        ELSE [st EXCEPT !.tech_tree[pos].unlocked = TRUE]

\* apply_action, PlayerAction::Research(id)
apply_research(st, id) ==
    LET pos == tech_position(st.tech_tree, id)
    IN  IF pos # 0 /\ st.resources.materials >= st.tech_tree[pos].cost
        THEN [st EXCEPT !.resources.materials = @ - st.tech_tree[pos].cost,
                        !.tech_tree[pos].unlocked = TRUE,
                        !.log = log_add(@, 1)]
        ELSE st

\* apply_upgrade, the first block: the target template id, or NONE when any lookup fails
upgrade_target(st, zone_idx) ==
    IF ~ValidIndex(st, zone_idx) THEN NONE
    ELSE IF ~HasTemplate(ZoneAt(st, zone_idx).template_id) THEN NONE
    ELSE LET target_id == TemplateOf(ZoneAt(st, zone_idx).template_id).upgrade_to
         IN  IF target_id = NONE \/ ~HasTemplate(target_id) THEN NONE ELSE target_id

\* apply_upgrade succeeds (returns Some)
upgrade_succeeds(st, zone_idx) ==
    /\ upgrade_target(st, zone_idx) # NONE
    /\ st.resources.materials >= TemplateOf(upgrade_target(st, zone_idx)).construction_cost

\* apply_action, PlayerAction::UpgradeZone(index), with apply_upgrade
apply_upgrade_zone(st, zone_idx) ==
    IF upgrade_succeeds(st, zone_idx)
    THEN LET new_id == upgrade_target(st, zone_idx)
         IN  [st EXCEPT !.resources.materials = @ - TemplateOf(new_id).construction_cost,
                        !.zones[zone_idx + 1].template_id = new_id,
                        !.zones[zone_idx + 1].condition = MILLI,
                        !.log = log_add(@, 1)]
    ELSE [st EXCEPT !.log = log_add(@, 1)]

(***************************************************************************)
(* Wonders (narrative/wonders.rs): one wonder site node of the region map  *)
(***************************************************************************)
\* Wonder::GreatLibrary.stages(): the stage costs
wonder_stages == << 100000, 200000, 300000, 200000 >>

\* node.wonder_site = None: no construction started on the node
NoWonderSite == [started |-> FALSE, current_stage |-> 0, stage_progress |-> 0,
                 completed |-> FALSE]

\* WonderSite::new
WonderSiteNew == [NoWonderSite EXCEPT !.started = TRUE]

\* apply_action, PlayerAction::StartWonder on the wonder site node
apply_start_wonder(st) ==
    IF ~st.wonder_site.started
    THEN [st EXCEPT !.wonder_site = WonderSiteNew, !.log = log_add(@, 1)]
    ELSE st

\* WonderSite::contribute: the materials it uses
contribute_used(site, materials) ==
    IF site.completed \/ site.current_stage >= Len(wonder_stages) THEN 0
    ELSE Min(materials, wonder_stages[site.current_stage + 1] - site.stage_progress)

\* WonderSite::contribute: the site afterwards
contribute(site, materials) ==
    IF site.completed \/ site.current_stage >= Len(wonder_stages) THEN site
    ELSE LET progress == site.stage_progress + contribute_used(site, materials)
             stage_done == progress >= wonder_stages[site.current_stage + 1]
         IN  IF ~stage_done THEN [site EXCEPT !.stage_progress = progress]
             ELSE [site EXCEPT !.current_stage = @ + 1, !.stage_progress = 0,
                               !.completed = site.current_stage + 1 >= Len(wonder_stages)]

\* apply_action, PlayerAction::ContributeToWonder(node, amount) on the wonder site node
apply_contribute_to_wonder(st, amount) ==
    IF st.resources.materials < amount
    THEN [st EXCEPT !.log = log_add(@, 1)]
    ELSE IF ~st.wonder_site.started THEN st
    ELSE LET used == contribute_used(st.wonder_site, amount)
             after == contribute(st.wonder_site, amount)
             stage_done == after.current_stage > st.wonder_site.current_stage
             entries == (IF stage_done THEN 1 ELSE 0) + (IF after.completed THEN 1 ELSE 0)
         IN  IF used > 0
             THEN [st EXCEPT !.resources.materials = @ - used,
                             !.wonder_site = after,
                             !.log = log_add(@, entries)]
             ELSE [st EXCEPT !.wonder_site = after]

(***************************************************************************)
(* Agents (simulation/agents.rs).  Needs are in millionths (1.0 = 1000000),*)
(* positions and distances in thousandths of a map unit, times in          *)
(* milliseconds, the game hour in minutes of the day.  Agents, their homes *)
(* and their targets stand on one line (equal y), so a position is its x.  *)
(***************************************************************************)
\* simulate_ticks: let agent_delta = 0.016
agent_delta == 16
\* 1.0 as a need
FULL == 1000000

\* TimeOfDay::from_hour
from_hour(hour) ==
    LET h == hour % MIN_PER_DAY
    IN  IF h >= 6 * MIN_PER_HOUR /\ h < 9 * MIN_PER_HOUR THEN "Morning"
        ELSE IF h >= 9 * MIN_PER_HOUR /\ h < 17 * MIN_PER_HOUR THEN "Work"
        ELSE IF h >= 17 * MIN_PER_HOUR /\ h < 22 * MIN_PER_HOUR THEN "Evening"
        ELSE "Night"

\* Vec2::distance on the line
distance(p, q) == Abs(p - q)

\* Agent::new(id, pos).with_job(job).with_home(home); the trait modifiers are the products
\* over the agent's traits, in thousandths
AgentNew(pos, job, home_pos) ==
    [pos |-> pos, state |-> "Idle", target |-> 0, duration |-> 0, zone_idx |-> 0,
     energy |-> FULL, hunger |-> FULL, social |-> FULL, spirit |-> FULL,
     job |-> job, home_pos |-> home_pos, speed |-> 60,
     energy_mod |-> MILLI, hunger_mod |-> MILLI, social_mod |-> MILLI, spirit_mod |-> MILLI,
     social_events |-> 0]

\* self.state = AgentState::...
become(a, st, target, duration, zone_idx) ==
    [a EXCEPT !.state = st, !.target = target, !.duration = duration, !.zone_idx = zone_idx]

\* Agent::find_nearest: the first target at the least distance
RECURSIVE NearestFrom(_, _, _, _, _)
NearestFrom(a, targets, i, nearest, min_dist) ==
    IF i > Len(targets) THEN nearest
    ELSE IF distance(a.pos, targets[i]) < min_dist
    THEN NearestFrom(a, targets, i + 1, targets[i], distance(a.pos, targets[i]))
    ELSE NearestFrom(a, targets, i + 1, nearest, min_dist)
find_nearest(a, targets) == NearestFrom(a, targets, 1, targets[1], 2000000000)

\* Agent::is_at_location
is_at_location(target, list) == \E i \in 1..Len(list) : distance(list[i], target) < 1000

\* self.pos += (target - self.pos).normalize() * self.speed * delta
move_toward(a, target, delta) ==
    [a EXCEPT !.pos = IF target > a.pos THEN a.pos + a.speed * delta
                      ELSE IF target < a.pos THEN a.pos - a.speed * delta
                      ELSE a.pos]

\* Agent::update, "Needs Decay"
needs_decay(a, delta) ==
    LET rate == 20 * delta
    IN  [a EXCEPT !.energy = Max(@ - (rate * 3 * a.energy_mod) \div (10 * MILLI), 0),
                  !.hunger = Max(@ - (rate * 5 * a.hunger_mod) \div (10 * MILLI), 0),
                  !.social = Max(@ - (rate * 4 * a.social_mod) \div (10 * MILLI), 0),
                  !.spirit = Max(@ - (rate * 1 * a.spirit_mod) \div (10 * MILLI), 0)]

\* Agent::update, AgentState::Idle: the time-of-day decision tree.  roll.work is the draw
\* gen_range(0, 100) < 5, roll.wander the draw gen_range(0, 100) < 3, roll.target the
\* point pick_random_target returns.
update_idle(a, time_of_day, world, roll) ==
    IF time_of_day = "Night"
    THEN IF distance(a.pos, a.home_pos) > 20000
         THEN become(a, "GoingHome", 0, 0, 0)
         ELSE become(a, "Sleeping", 0, 0, 0)
    ELSE IF time_of_day = "Morning"
    THEN IF a.hunger < 500000 /\ Len(world.markets) > 0
         THEN become(a, "Wandering", find_nearest(a, world.markets), 0, 0)
         ELSE IF a.energy < 300000 THEN become(a, "Sleeping", 0, 0, 0)
         ELSE a
    ELSE IF time_of_day = "Work"
    THEN IF a.energy < 200000 THEN become(a, "GoingHome", 0, 0, 0)
         ELSE IF a.hunger < 300000 /\ Len(world.markets) > 0
         THEN become(a, "Wandering", find_nearest(a, world.markets), 0, 0)
         ELSE IF Len(world.workshops) > 0 /\ roll.work
         THEN become(a, "Wandering", find_nearest(a, world.workshops), 0, 0)
         ELSE IF Len(world.construction_sites) > 0 /\ a.job = "Builder"
         THEN become(a, "Building", world.construction_sites[1][1], 0,
                     world.construction_sites[1][2])
         ELSE a
    ELSE IF a.hunger < 400000 /\ Len(world.markets) > 0
         THEN become(a, "Wandering", find_nearest(a, world.markets), 0, 0)
         ELSE IF a.social < 500000 /\ Len(world.parks) > 0
         THEN become(a, "Wandering", find_nearest(a, world.parks), 0, 0)
         ELSE IF roll.wander THEN become(a, "Wandering", roll.target, 0, 0)
         ELSE a

\* AgentState::Wandering that resolves by the category of the place alone
update_wandering_by_category(a, delta, world) ==
    IF distance(a.pos, a.target) < 10000
    THEN IF is_at_location(a.target, world.markets)
         THEN become(a, "Shopping", a.target, 2000, 0)
         ELSE IF is_at_location(a.target, world.parks)
         THEN become(a, "Socializing", a.target, 3000, 0)
         ELSE IF is_at_location(a.target, world.workshops)
         THEN become(a, "Working", a.target, 5000, 0)
         ELSE become(a, "Idle", 0, 0, 0)
    ELSE move_toward(a, a.target, delta)

\* Agent::update, AgentState::Wandering
update_wandering(a, delta, world) ==
    IF distance(a.pos, a.target) < 10000
    THEN IF is_at_location(a.target, world.markets) /\ a.hunger < 500000
         THEN become(a, "Shopping", a.target, 2000, 0)
         ELSE IF is_at_location(a.target, world.parks) /\ a.social < 500000
         THEN become(a, "Socializing", a.target, 3000, 0)
         ELSE IF is_at_location(a.target, world.workshops)
         THEN become(a, "Working", a.target, 5000, 0)
         ELSE become(a, "Idle", 0, 0, 0)
    ELSE move_toward(a, a.target, delta)

\* Agent::update, AgentState::Shopping
update_shopping(a, delta) ==
    IF a.duration - delta <= 0
    THEN [become(a, "Idle", 0, 0, 0) EXCEPT !.hunger = FULL,
                                            !.spirit = Min(@ + 100000, FULL)]
    ELSE [a EXCEPT !.duration = @ - delta]

\* Agent::update, AgentState::Socializing
update_socializing(a, delta) ==
    IF a.duration - delta <= 0
    THEN [become(a, "Idle", 0, 0, 0) EXCEPT !.social = FULL,
                                            !.spirit = Min(@ + 200000, FULL),
                                            !.social_events = @ + 1]
    ELSE [a EXCEPT !.duration = @ - delta]

\* AgentState::Working whose countdown stands still
update_working_endless(a, delta) == [a EXCEPT !.energy = Max(@ - delta * 100, 0)]

\* Agent::update, AgentState::Working
update_working(a, delta) ==
    LET tired == [a EXCEPT !.energy = Max(@ - delta * 100, 0)]
    IN  IF a.duration - delta <= 0
        THEN [become(tired, "Idle", 0, 0, 0) EXCEPT !.spirit = Min(@ + 50000, FULL)]
        ELSE [tired EXCEPT !.duration = @ - delta]

\* Agent::update, AgentState::Building
update_building(a, delta) ==
    IF distance(a.pos, a.target) < 10000
    THEN LET tired == [a EXCEPT !.energy = Max(@ - delta * 150, 0)]
         IN  IF tired.energy < 200000 THEN become(tired, "GoingHome", 0, 0, 0) ELSE tired
    ELSE move_toward(a, a.target, delta)

\* AgentState::GoingHome that walks home and never lies down
update_going_home_restless(a, delta) == move_toward(a, a.home_pos, delta)

\* Agent::update, AgentState::GoingHome
update_going_home(a, delta) ==
    IF distance(a.pos, a.home_pos) < 10000
    THEN become(a, "Sleeping", 0, 0, 0)
    ELSE move_toward(a, a.home_pos, delta)

\* AgentState::Sleeping that wakes at any hour
update_sleeping_any_hour(a, delta, time_of_day) ==
    LET rested == [a EXCEPT !.energy = Min(@ + delta * 300, FULL)]
    IN  IF rested.energy >= 900000 THEN become(rested, "Idle", 0, 0, 0) ELSE rested

\* Agent::update, AgentState::Sleeping
update_sleeping(a, delta, time_of_day) ==
    LET rested == [a EXCEPT !.energy = Min(@ + delta * 300, FULL)]
    IN  IF rested.energy >= 900000 /\ time_of_day # "Night"
        THEN become(rested, "Idle", 0, 0, 0)
        ELSE rested

\* Agent::update(delta, world)
agent_update(agent0, delta, world, roll) ==
    LET time_of_day == from_hour(world.game_hour)
        a == needs_decay(agent0, delta)
        b == CASE a.state = "Idle" -> update_idle(a, time_of_day, world, roll)
               [] a.state = "Wandering" -> update_wandering(a, delta, world)
               [] a.state = "Shopping" -> update_shopping(a, delta)
               [] a.state = "Socializing" -> update_socializing(a, delta)
               [] a.state = "Working" -> update_working(a, delta)
               [] a.state = "Building" -> update_building(a, delta)
               [] a.state = "GoingHome" -> update_going_home(a, delta)
               [] OTHER -> update_sleeping(a, delta, time_of_day)
    IN  [b EXCEPT !.pos = Clamp(@, 0, 50 * 32 * MILLI)]

\* Season::morale_bonus, in millionths of spirit per game day
morale_bonus(s) ==
    CASE s = "Spring" -> 50000 [] s = "Summer" -> 20000 [] s = "Autumn" -> 0 [] OTHER -> -30000

\* morale_bonus() * total_hours / 24.0, in millionths (a tenth taken out of both factors
\* to stay within 32 bits)
morale_change(season, game_minutes) ==
    DivTrunc((morale_bonus(season) \div 10) * game_minutes, MIN_PER_DAY \div 10)

\* the seasonal morale change without its clamp
seasonal_morale_unclamped(a, season, game_minutes) ==
    [a EXCEPT !.spirit = @ + morale_change(season, game_minutes)]

\* simulate_ticks, "Apply seasonal morale bonus to agents", for one agent
seasonal_morale(a, season, game_minutes) ==
    [a EXCEPT !.spirit = Clamp(@ + morale_change(season, game_minutes),
                               0, FULL)]

(***************************************************************************)
(* The state machine                                                       *)
(***************************************************************************)
VARIABLES
    state,      \* the GameState
    last,       \* the last operation: its name, its arguments and the state before it
    steps,      \* number of operations so far
    timer,      \* the TickTimer: accumulated, tick_rate
    timer_log,  \* the TickTimer's update calls so far: <<delta, returned ticks>>
    batch,      \* the batched run the tick-by-tick run is compared with
    calc,       \* the formula last evaluated: its name, its arguments, its result
    agent,      \* the agent whose behaviour is followed on its own
    roster,     \* the agents of the roster with their ids, followed on their own
    frame       \* the main loop: paused, time_scale and the scene manager

vars == << state, last, steps, timer, timer_log, batch, calc, agent, roster, frame >>

\* inputs of the operations
TickCounts == {1, 10, 60}
WeatherDurations == {180, 600}
OfflineMinutes == {0, 120}
DecayMinutes == {100, 450}
ActivityTargets == {800}
ContributeAmounts == {2000}
TechIds == {default_tech_tree[i].id : i \in 1..Len(default_tech_tree)} \cup {"alchemy"}
ZoneIndices == 0..NumZones

\* GameConfig.starting_resources: the default, and a richer configuration
StartingResources ==
    { [materials |-> 1000, maintenance |-> 1000, attractiveness |-> 500, stability |-> 1000],
      [materials |-> 30000, maintenance |-> 1000, attractiveness |-> 500, stability |-> 1000] }

\* SeasonState::default
StartingSeasons ==
    { [season |-> "Spring", day_in_season |-> 0, weather |-> "Sunny", weather_duration |-> 360] }

\* GameState::new followed by initialize_game's add_zone calls and welcome entry
GameStateNew(starting_resources, season_state) ==
    [resources |-> starting_resources,
     population |-> 0,
     zones |-> [i \in 1..Min(NumZones, Len(zones_to_add)) |-> ZoneNew(zones_to_add[i])],
     tech_tree |-> default_tech_tree,
     agents |-> << >>,
     log |-> 1,
     game_time_hours |-> 0,
     game_hour |-> 8 * MIN_PER_HOUR,
     season_state |-> season_state,
     achievements |-> {},
     winters_survived |-> 0,
     wonder_site |-> NoWonderSite]

\* a game loaded from a save: a richer town in a summer storm, its first zone restored
\* and in use, its second one a building site (Zone::new_under_construction)
SavedGame ==
    LET fresh == GameStateNew(
                    [materials |-> 30000, maintenance |-> 1000, attractiveness |-> 500,
                     stability |-> 1000],
                    [season |-> "Summer", day_in_season |-> 0, weather |-> "Storm",
                     weather_duration |-> 360])
    IN  [fresh EXCEPT
            !.population = 60000,
            !.game_time_hours = 600,
            !.zones = [i \in 1..Len(fresh.zones) |->
                         IF i = 1 THEN [fresh.zones[i] EXCEPT !.condition = 600,
                                                              !.activity = 300,
                                                              !.dormant = FALSE]
                         ELSE IF i = 2 THEN new_under_construction(zones_to_add[i])
                         ELSE fresh.zones[i]]]

StartingStates ==
    {GameStateNew(r, s) : r \in StartingResources, s \in StartingSeasons} \cup {SavedGame}

\* TickTimer::new
TickTimerNew(tick_rate) == [accumulated |-> 0, tick_rate |-> tick_rate]

\* the values the variables of the other specifications keep in this one
NoTimer == TickTimerNew(tick_rate_seconds * MILLI)
NoBatch == [left |-> 0, num_ticks |-> 0, result |-> SavedGame]
NoLast(st) == [op |-> "new", arg |-> 0, pre |-> st]
NoCalc == [fn |-> "none", args |-> << >>, result |-> 0]
NoAgent == AgentNew(0, "Laborer", 0)

\* main: paused = false, time_scale = 1.0; SceneManager::new
NoFrame ==
    [paused |-> FALSE, time_scale |-> MILLI,
     scene_manager |-> [current |-> "TownView", pending_transition |-> "none",
                        transition_progress |-> 0, is_transitioning |-> FALSE]]

Init ==
    /\ state \in StartingStates
    /\ last = NoLast(state)
    /\ steps = 0
    /\ timer = NoTimer
    /\ timer_log = << >>
    /\ calc = NoCalc
    /\ roster = << >>
    /\ frame = NoFrame
    /\ agent = NoAgent
    /\ batch = NoBatch

\* an operation op(arg) takes the game from state to st
Step(op, arg, st) ==
    /\ steps < MaxSteps
    /\ state' = st
    /\ last' = [op |-> op, arg |-> arg, pre |-> state]
    /\ steps' = steps + 1
    /\ UNCHANGED << timer, timer_log, batch, calc, agent, roster, frame >>

\* the random draws a batch of game_minutes can make from st
Rolls(st, game_minutes) ==
    LET rolled == st.season_state.weather_duration - game_minutes <= 0
        weathers == IF rolled THEN WeatherOf(st.season_state.season)
                              ELSE {st.season_state.weather}
        durations == IF rolled THEN WeatherDurations ELSE {st.season_state.weather_duration}
        storms(w) == IF storm_can_hit(w, game_minutes) /\ ~storm_must_hit(w, game_minutes)
                     THEN BOOLEAN ELSE {FALSE}
    IN  UNION { { [weather |-> w, duration |-> d, storm |-> s] : d \in durations, s \in storms(w) }
                : w \in weathers }

\* main loop: simulate_ticks(&mut state, ticks, tick_rate)
SimulateTicks ==
    \E n \in TickCounts :
        \E rnd \in Rolls(state, n * tick_rate_seconds) :
            Step("simulate_ticks", n, simulate_ticks(state, n, tick_rate_seconds, rnd))

\* loading a save: process_offline_time(&mut state, offline_hours)
ProcessOfflineTime ==
    \E m \in OfflineMinutes : Step("process_offline_time", m, process_offline_time(state, m))

RestoreZone ==
    \E index \in ZoneIndices : Step("RestoreZone", index, apply_restore_zone(state, index))

Research ==
    \E id \in TechIds : Step("Research", id, apply_research(state, id))

UpgradeZone ==
    \E index \in ZoneIndices : Step("UpgradeZone", index, apply_upgrade_zone(state, index))

StartWonder == Step("StartWonder", 0, apply_start_wonder(state))

ContributeToWonder ==
    \E amount \in ContributeAmounts :
        Step("ContributeToWonder", amount, apply_contribute_to_wonder(state, amount))

\* Zone::apply_decay on one zone that has a template
ApplyDecay ==
    \E i \in 1..Len(state.zones), delta_time \in DecayMinutes :
        /\ HasTemplate(state.zones[i].template_id)
        /\ Step("apply_decay", i - 1,
                [state EXCEPT !.zones[i] =
                    apply_decay(@, TemplateOf(state.zones[i].template_id), delta_time)])

\* Zone::update_activity on one zone
UpdateActivity ==
    \E i \in 1..Len(state.zones),
       target \in ActivityTargets \cup {effective_population(state.population, population_k)} :
        Step("update_activity", i - 1,
             [state EXCEPT !.zones[i] = update_activity(@, target)])

Next ==
    \/ SimulateTicks
    \/ ProcessOfflineTime
    \/ RestoreZone
    \/ Research
    \/ UpgradeZone
    \/ StartWonder
    \/ ContributeToWonder
    \/ ApplyDecay
    \/ UpdateActivity

Spec == Init /\ [][Next]_vars

(***************************************************************************)
(* The tick timer alone (simulation/tick.rs, TickTimer): any tick rate,    *)
(* any sequence of frame times.  Times are in milliseconds.                *)
(***************************************************************************)
\* number of update calls explored
MaxTimerCalls == 4

TickRates == {1000, 250, 1500}
FrameTimes == {0, 16, 500, 2500}

\* TickTimer::update without carrying the remainder over a frame that ticked
timer_update_reset(t, delta_time) ==
    LET accumulated == t.accumulated + delta_time
        ticks == accumulated \div t.tick_rate
    IN  [timer |-> [t EXCEPT !.accumulated = IF ticks > 0 THEN 0 ELSE accumulated],
         ticks |-> ticks]

\* TickTimer::update: the timer afterwards and the number of ticks it returns
timer_update(t, delta_time) ==
    LET accumulated == t.accumulated + delta_time
        ticks == accumulated \div t.tick_rate
    IN  [timer |-> [t EXCEPT !.accumulated = accumulated - ticks * t.tick_rate],
         ticks |-> ticks]

InitTimer ==
    /\ state = SavedGame
    /\ last = NoLast(state)
    /\ steps = 0
    /\ timer \in {TickTimerNew(r) : r \in TickRates}
    /\ timer_log = << >>
    /\ calc = NoCalc
    /\ roster = << >>
    /\ frame = NoFrame
    /\ agent = NoAgent
    /\ batch = NoBatch

\* one frame of the main loop: timer.update(get_frame_time())
TimerUpdate ==
    \E delta_time \in FrameTimes :
        /\ Len(timer_log) < MaxTimerCalls
        /\ timer' = timer_update(timer, delta_time).timer
        /\ timer_log' = Append(timer_log, << delta_time, timer_update(timer, delta_time).ticks >>)
        /\ UNCHANGED << state, last, steps, batch, calc, agent, roster, frame >>

NextTimer == TimerUpdate

SpecTimer == InitTimer /\ [][NextTimer]_vars

(***************************************************************************)
(* One batch against single ticks: from a starting state, the result of    *)
(* simulate_ticks(state, N, 1.0) is kept in batch.result while state       *)
(* takes N calls simulate_ticks(state, 1, 1.0).                            *)
(***************************************************************************)
\* largest batch compared
MaxBatchTicks == 10
\* tolerance of the comparison, in milli
BatchTolerance == 25

BatchCounts == {2, 5, MaxBatchTicks}

\* starting states: a new game, a loaded game, and each after one RestoreZone
BatchStarts ==
    StartingStates
    \cup {apply_restore_zone(s, index) : s \in StartingStates, index \in 0..(NumZones - 1)}

\* the draws of a batch in which the weather is not rolled and no storm damage falls
NoRoll(st) ==
    [weather |-> st.season_state.weather, duration |-> st.season_state.weather_duration,
     storm |-> FALSE]

InitBatch ==
    /\ state \in BatchStarts
    /\ last = NoLast(state)
    /\ steps = 0
    /\ timer = NoTimer
    /\ timer_log = << >>
    /\ calc = NoCalc
    /\ roster = << >>
    /\ frame = NoFrame
    /\ agent = NoAgent
    /\ \E n \in BatchCounts :
          batch = [left |-> n, num_ticks |-> n,
                   result |-> simulate_ticks(state, n, tick_rate_seconds, NoRoll(state))]

\* one of the N single-tick calls
BatchSeqTick ==
    /\ batch.left > 0
    /\ state' = simulate_ticks(state, 1, tick_rate_seconds, NoRoll(state))
    /\ batch' = [batch EXCEPT !.left = @ - 1]
    /\ last' = [op |-> "simulate_ticks", arg |-> 1, pre |-> state]
    /\ UNCHANGED << steps, timer, timer_log, calc, agent, roster, frame >>

NextBatch == BatchSeqTick

SpecBatch == InitBatch /\ [][NextBatch]_vars

(***************************************************************************)
(* Properties                                                              *)
(***************************************************************************)
Within(a, b, tol) == Abs(a - b) <= tol

\* C1: one call simulate_ticks(state, N, t) leaves the same four resource stocks and the
\* same population pressure, within tolerance, as N successive calls
\* simulate_ticks(state, 1, t) from the same starting state.
BatchEquivalence ==
    (batch.num_ticks > 0 /\ batch.left = 0) =>
        /\ Within(state.resources.materials, batch.result.resources.materials, BatchTolerance)
        /\ Within(state.resources.maintenance, batch.result.resources.maintenance,
                  BatchTolerance)
        /\ Within(state.resources.attractiveness, batch.result.resources.attractiveness,
                  BatchTolerance)
        /\ Within(state.resources.stability, batch.result.resources.stability, BatchTolerance)
        /\ Within(state.population, batch.result.population, BatchTolerance)

\* sums over the timer's update calls so far
RECURSIVE SumLog(_, _, _)
SumLog(log, field, n) == IF n = 0 THEN 0 ELSE log[n][field] + SumLog(log, field, n - 1)
Elapsed(n) == SumLog(timer_log, 1, n)
Returned(n) == SumLog(timer_log, 2, n)

\* C2: for a TickTimer with rate r > 0 and any sequence of update(delta) calls, delta >= 0,
\* the returned ticks times r never exceed the elapsed time (so never by more than r) and
\* never fall behind it by r or more; each update returns floor(accumulated / r) and keeps
\* the remainder; with r = 1.0 the calls update(0.5), update(0.5), update(2.5), update(0.5)
\* return 0, 1, 2, 1.
TimerConservation ==
    LET r == timer.tick_rate
        n == Len(timer_log)
    IN  /\ Returned(n) * r <= Elapsed(n)
        /\ Elapsed(n) - Returned(n) * r < r
        /\ timer.accumulated = Elapsed(n) - Returned(n) * r
        /\ \A i \in 1..n :
              timer_log[i][2] = (Elapsed(i) - Returned(i - 1) * r) \div r
        /\ (r = 1000 /\ n = 4 /\ [i \in 1..n |-> timer_log[i][1]] = << 500, 500, 2500, 500 >>)
              => [i \in 1..n |-> timer_log[i][2]] = << 0, 1, 2, 1 >>

\* the four calls of the example have been made on a timer with r = 1.0
TimerExampleRun ==
    /\ timer.tick_rate = 1000
    /\ timer_log = << << 500, 0 >>, << 500, 1 >>, << 2500, 2 >>, << 500, 1 >> >>

\* C3: in every state reachable by simulate_ticks, process_offline_time and the player
\* actions, materials, maintenance, attractiveness and stability are all >= 0.
NoNegativeStock ==
    /\ state.resources.materials >= 0
    /\ state.resources.maintenance >= 0
    /\ state.resources.attractiveness >= 0
    /\ state.resources.stability >= 0

\* a batch whose delta would have taken the maintenance stock below zero left it at zero
StockFlooredAtZero ==
    /\ last.op = "simulate_ticks"
    /\ last.pre.resources.maintenance > 0
    /\ state.resources.maintenance = 0

\* C4: after every simulate_ticks call with num_ticks >= 1 the number of agents equals
\* min(round(population pressure after the batch's population update), 50), whatever the
\* agent count was before the call.
RosterReconciled ==
    (last.op = "simulate_ticks" /\ last.arg >= 1) =>
        Len(state.agents) = Min((state.population + 500) \div 1000, 50)

\* a batch that had to shrink the roster
RosterShrunk ==
    /\ last.op = "simulate_ticks"
    /\ last.arg >= 1
    /\ Len(state.agents) < Len(last.pre.agents)
    /\ Len(state.agents) = Min((state.population + 500) \div 1000, 50)

\* the zones a decay step acted on: all of them in a batch, the named one in apply_decay
DecayedZones ==
    IF last.op = "simulate_ticks" /\ last.arg >= 1 THEN 1..Len(state.zones)
    ELSE IF last.op = "apply_decay" THEN {last.arg + 1}
    ELSE {}

\* C5: whenever a decay step (Zone::apply_decay, or a simulate_ticks batch) leaves a
\* non-dormant zone's condition strictly below its template's neglect_threshold, the
\* zone is dormant at the end of that step.
AutomaticDormancy ==
    \A i \in DecayedZones :
        (/\ ~last.pre.zones[i].dormant
         /\ HasTemplate(state.zones[i].template_id)
         /\ state.zones[i].condition < TemplateOf(state.zones[i].template_id).neglect_threshold)
        => state.zones[i].dormant

\* C6: a completed (not under construction) zone that is dormant stays dormant across
\* simulate_ticks, apply_decay, update_activity and process_offline_time; it becomes
\* non-dormant only through a restore call (RestoreZone on that zone) whose resulting
\* condition exceeds 0.1.
DormantUntilRestored ==
    \A i \in 1..Len(state.zones) :
        (/\ last.pre.zones[i].dormant
         /\ ~is_under_construction(last.pre.zones[i])
         /\ ~state.zones[i].dormant)
        => (/\ last.op = "RestoreZone"
            /\ last.arg = i - 1
            /\ state.zones[i].condition > 100)

\* a zone that stayed dormant through earlier steps is reactivated by RestoreZone
ReactivatedByRestore ==
    /\ steps >= 2
    /\ last.op = "RestoreZone"
    /\ \E i \in 1..Len(state.zones) :
          /\ last.arg = i - 1
          /\ last.pre.zones[i].dormant
          /\ ~is_under_construction(last.pre.zones[i])
          /\ ~state.zones[i].dormant

\* values of condition, activity and a resource stock tried on a zone
ProbeLevels == {300, 1000}
ProbeStocks == {0}

\* C7: a zone with dormant = true or construction_state = UnderConstruction has
\* throughput 0 and adds nothing to the output side of a batch's resource delta, for
\* every value of condition, activity and resources.
IdleZoneYieldsNothing ==
    \A i \in 1..Len(state.zones) :
        LET zone == state.zones[i]
        IN  (HasTemplate(zone.template_id) /\ (zone.dormant \/ is_under_construction(zone))) =>
                \A c \in ProbeLevels \cup {zone.condition},
                   a \in ProbeLevels \cup {zone.activity},
                   m \in ProbeStocks \cup {state.resources.materials} :
                    LET z == [zone EXCEPT !.condition = c, !.activity = a]
                        res == [state.resources EXCEPT !.materials = m]
                    IN  /\ calculate_throughput(z, TemplateOf(z.template_id)) = 0
                        /\ zone_output(z, res, TechBonuses(state.tech_tree)) = NoDelta

\* a building site that is not dormant, in repair and in use
BuildingSiteInUse ==
    \E i \in 1..Len(state.zones) :
        /\ is_under_construction(state.zones[i])
        /\ ~state.zones[i].dormant
        /\ state.zones[i].condition > 0
        /\ state.zones[i].activity > 0
        /\ zone_output(state.zones[i], state.resources, TechBonuses(state.tech_tree)) = NoDelta

\* the zone is neither dormant nor under construction, and its template produces
IsActiveZone(zone) ==
    /\ ~zone.dormant
    /\ ~is_under_construction(zone)
    /\ HasTemplate(zone.template_id)
    /\ TemplateOf(zone.template_id).base_throughput > 0

\* C8 as stated: in every reachable state a zone that is neither dormant nor under
\* construction (template base_throughput > 0) yields a strictly positive output in a
\* simulate_ticks batch; zero output occurs only for dormant or under-construction zones.
ActiveZoneProduces ==
    \A i \in 1..Len(state.zones) :
        IsActiveZone(state.zones[i]) => zone_multiplier(state.zones[i], state.resources) > 0

\* the stocks of the state with some of them emptied
StarvedStocks ==
    {[state.resources EXCEPT !.materials = m, !.maintenance = n, !.stability = s] :
        m \in {0, state.resources.materials},
        n \in {0, state.resources.maintenance},
        s \in {0, state.resources.stability}}

\* C8, amended: a zone whose throughput is positive yields a strictly positive output
\* multiplier whatever the resource stocks, even with materials, maintenance and
\* stability at zero; a zone's output multiplier is zero only when its throughput is zero
\* (dormant, under construction, condition 0 or activity 0).
NotStarvedToZero ==
    \A i \in 1..Len(state.zones) :
        LET zone == state.zones[i]
        IN  HasTemplate(zone.template_id) =>
                \A res \in StarvedStocks :
                    (zone_multiplier(zone, res) = 0)
                    <=> (calculate_throughput(zone, TemplateOf(zone.template_id)) = 0)

\* a producing zone in a town whose maintenance stock has run out
ProducingWhileStarved ==
    \E i \in 1..Len(state.zones) :
        /\ IsActiveZone(state.zones[i])
        /\ state.resources.maintenance = 0
        /\ calculate_throughput(state.zones[i], TemplateOf(state.zones[i].template_id)) > 0
        /\ zone_multiplier(state.zones[i], state.resources) > 0

\* the state of the example: materials 1.0, a zone of cost 0.5 at condition 0.4
RestoreExample ==
    LET fresh == GameStateNew([materials |-> 1000, maintenance |-> 1000,
                               attractiveness |-> 500, stability |-> 1000],
                              [season |-> "Spring", day_in_season |-> 0,
                               weather |-> "Sunny", weather_duration |-> 360])
    IN  [fresh EXCEPT !.zones[1].condition = 400, !.zones[1].dormant = FALSE]

\* C9: RestoreZone(index) with a valid index, materials >= the zone template's
\* construction_cost and condition < 1.0 lowers materials by exactly construction_cost,
\* sets that zone's condition to min(1.0, condition + 0.5) and leaves every other zone and
\* every other resource unchanged; materials 1.0, cost 0.5, condition 0.4 gives materials
\* 0.5 and condition 0.9.
RestoreZoneEffect ==
    /\ (/\ last.op = "RestoreZone"
        /\ ValidIndex(last.pre, last.arg)
        /\ HasTemplate(ZoneAt(last.pre, last.arg).template_id)
        /\ last.pre.resources.materials
              >= TemplateOf(ZoneAt(last.pre, last.arg).template_id).construction_cost
        /\ ZoneAt(last.pre, last.arg).condition < 1000)
       => (/\ state.resources.materials = last.pre.resources.materials
                 - TemplateOf(ZoneAt(last.pre, last.arg).template_id).construction_cost
           /\ ZoneAt(state, last.arg).condition
                 = Min(1000, ZoneAt(last.pre, last.arg).condition + 500)
           /\ \A i \in 1..Len(state.zones) :
                 i # last.arg + 1 => state.zones[i] = last.pre.zones[i]
           /\ Len(state.zones) = Len(last.pre.zones)
           /\ state.resources.maintenance = last.pre.resources.maintenance
           /\ state.resources.attractiveness = last.pre.resources.attractiveness
           /\ state.resources.stability = last.pre.resources.stability)
    /\ apply_restore_zone(RestoreExample, 0).resources.materials = 500
    /\ apply_restore_zone(RestoreExample, 0).zones[1].condition = 900

\* a successful RestoreZone whose sum condition + 0.5 exceeds 1.0 and is cut to 1.0
RestoreCapped ==
    /\ last.op = "RestoreZone"
    /\ ValidIndex(last.pre, last.arg)
    /\ ZoneAt(last.pre, last.arg).condition < 1000
    /\ ZoneAt(last.pre, last.arg).condition + 500 > 1000
    /\ state.resources.materials < last.pre.resources.materials
    /\ ZoneAt(state, last.arg).condition = 1000

\* C10: RestoreZone(index) on a zone whose condition is >= 1.0 leaves materials, every
\* other resource and every zone field unchanged, even when the cost is affordable.
RestoreFullIsNoOp ==
    (/\ last.op = "RestoreZone"
     /\ ValidIndex(last.pre, last.arg)
     /\ ZoneAt(last.pre, last.arg).condition >= 1000)
    => (/\ state.resources = last.pre.resources
        /\ state.zones = last.pre.zones)

\* RestoreZone on a fully restored zone with the cost affordable
RestoreFullAffordable ==
    /\ last.op = "RestoreZone"
    /\ ValidIndex(last.pre, last.arg)
    /\ ZoneAt(last.pre, last.arg).condition >= 1000
    /\ last.pre.resources.materials >= restore_cost(last.pre, last.arg)
    /\ state.resources = last.pre.resources

\* the last action left resources, zones and the tech tree as they were
NothingChanged ==
    /\ state.resources = last.pre.resources
    /\ state.zones = last.pre.zones
    /\ state.tech_tree = last.pre.tech_tree

\* the last action was rejected because its cost exceeds the materials stock
RestoreUnaffordable ==
    /\ last.op = "RestoreZone"
    /\ last.pre.resources.materials < restore_cost(last.pre, last.arg)
ResearchUnaffordable ==
    /\ last.op = "Research"
    /\ tech_position(last.pre.tech_tree, last.arg) # 0
    /\ last.pre.resources.materials
          < last.pre.tech_tree[tech_position(last.pre.tech_tree, last.arg)].cost
UpgradeUnaffordable ==
    /\ last.op = "UpgradeZone"
    /\ upgrade_target(last.pre, last.arg) # NONE
    /\ last.pre.resources.materials
          < TemplateOf(upgrade_target(last.pre, last.arg)).construction_cost

\* C11: when the cost of RestoreZone(index), Research(tech_id) or UpgradeZone(index)
\* exceeds the materials stock, the action leaves resources, all zones and the tech
\* tree's unlocked flags unchanged.
UnaffordableIsNoOp ==
    (RestoreUnaffordable \/ ResearchUnaffordable \/ UpgradeUnaffordable) => NothingChanged

\* an unaffordable Research of a known technology, after the town has spent materials
UnaffordableResearchTried ==
    /\ ResearchUnaffordable
    /\ NothingChanged
    /\ steps >= 2

\* C12: each RestoreZone, Research or UpgradeZone that is rejected because its cost
\* exceeds the materials stock appends exactly one entry to the game log.
RejectionLogged ==
    (RestoreUnaffordable \/ ResearchUnaffordable \/ UpgradeUnaffordable)
        => state.log = last.pre.log + 1

\* C14: Research(tech_id) on a technology whose unlocked flag is already true leaves
\* materials and the tech tree unchanged, so repeating it charges the cost at most once.
ResearchChargesOnce ==
    (/\ last.op = "Research"
     /\ tech_position(last.pre.tech_tree, last.arg) # 0
     /\ last.pre.tech_tree[tech_position(last.pre.tech_tree, last.arg)].unlocked)
    => (/\ state.resources.materials = last.pre.resources.materials
        /\ state.tech_tree = last.pre.tech_tree)

(***************************************************************************)
(* Player actions on a loaded game one of whose zones names a template     *)
(* that the template table no longer holds (Zone is deserialized as it was *)
(* saved; the handlers look the template up with find and go on without).  *)
(***************************************************************************)
StaleSaves ==
    {[SavedGame EXCEPT !.resources.materials = m,
                       !.zones[1] = [@ EXCEPT !.template_id = "old_mill"]] :
        m \in {500, 30000}}

InitSave ==
    /\ state \in StaleSaves
    /\ last = NoLast(state)
    /\ steps = 0
    /\ timer = NoTimer
    /\ timer_log = << >>
    /\ calc = NoCalc
    /\ roster = << >>
    /\ frame = NoFrame
    /\ agent = NoAgent
    /\ batch = NoBatch

NextSave ==
    \/ RestoreZone
    \/ Research
    \/ UpgradeZone

SpecSave == InitSave /\ [][NextSave]_vars

\* the last action named a zone index out of range, a zone whose template id matches no
\* template, or a tech id that is not in the tree
InvalidReference ==
    \/ /\ last.op \in {"RestoreZone", "UpgradeZone"}
       /\ \/ ~ValidIndex(last.pre, last.arg)
          \/ ~HasTemplate(ZoneAt(last.pre, last.arg).template_id)
    \/ /\ last.op = "Research"
       /\ tech_position(last.pre.tech_tree, last.arg) = 0

MaxPressureCalls == 2

StartPressures == {0, 1500, 7000, 60000}
TickAttractiveness == {0, 500, 3000}
TickCapacities == {0, 2000, 7000}
TickMinutes == {0, 1, 60, 1440}
PressureDeltas == {-5000, 2000}

InitPressure ==
    /\ state \in {[SavedGame EXCEPT !.population = p] : p \in StartPressures}
    /\ last = NoLast(state)
    /\ steps = 0
    /\ timer = NoTimer
    /\ timer_log = << >>
    /\ calc = NoCalc
    /\ roster = << >>
    /\ frame = NoFrame
    /\ agent = NoAgent
    /\ batch = NoBatch

\* state.population.tick(attractiveness, capacity, delta_time)
PressureTick ==
    \E attractiveness \in TickAttractiveness, capacity \in TickCapacities,
       delta_time \in TickMinutes :
        /\ steps < MaxPressureCalls
        /\ state' = [state EXCEPT !.population =
                        population_tick(@, attractiveness, capacity, delta_time)]
        /\ last' = [op |-> "tick",
                    arg |-> [attractiveness |-> attractiveness, capacity |-> capacity,
                             delta_time |-> delta_time],
                    pre |-> state]
        /\ steps' = steps + 1
        /\ UNCHANGED << timer, timer_log, batch, calc, agent, roster, frame >>

\* state.population.apply_delta(delta)
PressureApplyDelta ==
    \E delta \in PressureDeltas :
        /\ steps < MaxPressureCalls
        /\ state' = [state EXCEPT !.population = population_apply_delta(@, delta)]
        /\ last' = [op |-> "apply_delta", arg |-> delta, pre |-> state]
        /\ steps' = steps + 1
        /\ UNCHANGED << timer, timer_log, batch, calc, agent, roster, frame >>

NextPressure ==
    \/ PressureTick
    \/ PressureApplyDelta

SpecPressure == InitPressure /\ [][NextPressure]_vars

\* C15: starting from a pressure >= 0, after any sequence of PopulationPressure::tick
\* calls and apply_delta calls (any delta, positive or negative) the pressure is >= 0.
PressureNeverNegative ==
    state.population >= 0

\* a tick whose decay exceeded the pressure left it at zero
PressureFlooredByTick ==
    /\ last.op = "tick"
    /\ last.pre.population > 0
    /\ state.population = 0

\* C16: a tick with capacity <= 0, or with pressure >= capacity, never increases
\* pressure, for every attractiveness >= 0 and every delta_minutes >= 0.
NoCapacityNoGrowth ==
    /\ (/\ last.op = "tick"
        /\ \/ last.arg.capacity <= 0
           \/ last.pre.population >= last.arg.capacity)
       => state.population <= last.pre.population
    /\ \A attractiveness \in TickAttractiveness, delta_time \in TickMinutes,
          capacity \in {-1000, 0, state.population} :
            population_tick(state.population, attractiveness, capacity, delta_time)
                <= state.population

\* a tick of an attractive town without any housing, over some time
TickWithoutCapacity ==
    /\ last.op = "tick"
    /\ last.arg.capacity = 0
    /\ last.arg.attractiveness > 0
    /\ last.arg.delta_time > 0
    /\ last.pre.population > 0
    /\ state.population < last.pre.population

\* C20: if pressure <= capacity before a tick (capacity > 0, attractiveness >= 0), then
\* pressure <= capacity after it, for every delta_minutes >= 0.
PressureWithinCapacity ==
    (/\ last.op = "tick"
     /\ last.arg.capacity > 0
     /\ last.pre.population <= last.arg.capacity)
    => state.population <= last.arg.capacity

(***************************************************************************)
(* The formulas alone (economy/resources.rs, TimeTracker in                *)
(* simulation/tick.rs): each evaluation draws its arguments and records    *)
(* the result in calc.                                                     *)
(***************************************************************************)
SECONDS_PER_HOUR == 3600

\* TimeTracker::calculate_offline_hours without the cap
calculate_offline_hours_uncapped(last_save_time, current_time, cap_hours) ==
    IF current_time <= last_save_time THEN 0
    ELSE ((current_time - last_save_time) * MILLI) \div SECONDS_PER_HOUR

\* TimeTracker::calculate_offline_hours: times in seconds, the cap and the result in
\* milli-hours
calculate_offline_hours(last_save_time, current_time, cap_hours) ==
    IF current_time <= last_save_time THEN 0
    ELSE Min(((current_time - last_save_time) * MILLI) \div SECONDS_PER_HOUR, cap_hours)

PressureGrid == {0, 100, 1000, 5000, 10000, 100000, 1000000}
KGrid == {1000, 10000}
\* stocks up to 50: above that ln(S + 1) and ln(S + 2) differ by less than the milli
\* resolution of LnMilli
StockGrid == {-1000, 0, 1, 50, 1000, 10000, 50000}
OutputStocks == {0, 1000, 50000}
BaseGrid == {0, 1, 500, 1000, 8000}
SaveTimes == {0, 1000, 5000}
ClockTimes == {0, 1000, 4600, 360000}
OfflineCaps == {0, 1000, 72000}

InitFormulas ==
    /\ state = SavedGame
    /\ last = NoLast(state)
    /\ steps = 0
    /\ timer = NoTimer
    /\ timer_log = << >>
    /\ batch = NoBatch
    /\ calc = NoCalc
    /\ roster = << >>
    /\ frame = NoFrame
    /\ agent = NoAgent

EvalEffectivePopulation ==
    \E pressure \in PressureGrid, k \in KGrid :
        /\ calc' = [fn |-> "effective_population", args |-> << pressure, k >>,
                    result |-> effective_population(pressure, k)]
        /\ UNCHANGED << state, last, steps, timer, timer_log, batch, agent, roster, frame >>

EvalMaterialFactor ==
    \E materials \in StockGrid :
        /\ calc' = [fn |-> "material_factor", args |-> << materials >>,
                    result |-> material_factor(materials)]
        /\ UNCHANGED << state, last, steps, timer, timer_log, batch, agent, roster, frame >>

EvalMaintenanceFactor ==
    \E maintenance \in StockGrid :
        /\ calc' = [fn |-> "maintenance_factor", args |-> << maintenance >>,
                    result |-> maintenance_factor(maintenance)]
        /\ UNCHANGED << state, last, steps, timer, timer_log, batch, agent, roster, frame >>

EvalStabilityFactor ==
    \E stability \in StockGrid :
        /\ calc' = [fn |-> "stability_factor", args |-> << stability >>,
                    result |-> stability_factor(stability)]
        /\ UNCHANGED << state, last, steps, timer, timer_log, batch, agent, roster, frame >>

EvalCalculateOutput ==
    \E base \in BaseGrid, m \in OutputStocks, n \in OutputStocks, s \in OutputStocks :
        /\ calc' = [fn |-> "calculate_output", args |-> << base, m, n, s >>,
                    result |-> calculate_output(base, [materials |-> m, maintenance |-> n,
                                                       attractiveness |-> 0, stability |-> s])]
        /\ UNCHANGED << state, last, steps, timer, timer_log, batch, agent, roster, frame >>

EvalOfflineHours ==
    \E last_save_time \in SaveTimes, current_time \in ClockTimes, cap_hours \in OfflineCaps :
        /\ calc' = [fn |-> "calculate_offline_hours",
                    args |-> << last_save_time, current_time, cap_hours >>,
                    result |-> calculate_offline_hours(last_save_time, current_time, cap_hours)]
        /\ UNCHANGED << state, last, steps, timer, timer_log, batch, agent, roster, frame >>

NextFormulas ==
    \/ EvalEffectivePopulation
    \/ EvalMaterialFactor
    \/ EvalMaintenanceFactor
    \/ EvalStabilityFactor
    \/ EvalCalculateOutput
    \/ EvalOfflineHours

SpecFormulas == InitFormulas /\ [][NextFormulas]_vars

\* C17: for all pressure >= 0 and k > 0 the result of effective_population is in [0, 1),
\* it is strictly increasing in pressure, and effective_population(0, k) = 0.
EffectivePopulationSaturates ==
    calc.fn = "effective_population" =>
        /\ calc.result >= 0
        /\ calc.result < 1000
        /\ calc.args[1] = 0 => calc.result = 0
        /\ \A q \in PressureGrid :
              q < calc.args[1] => effective_population(q, calc.args[2]) < calc.result

\* the late-game value: P = 1000, K = 10 gives about 0.99, below 1
EffectivePopulationLate ==
    /\ calc.fn = "effective_population"
    /\ calc.args = << 1000000, 10000 >>
    /\ calc.result > 980
    /\ calc.result < 1000

FactorNames == {"material_factor", "maintenance_factor", "stability_factor"}

\* C18: material_factor, maintenance_factor and stability_factor each return exactly 0.1
\* at input 0 and for any input <= 0, never return less than 0.1 and never reach 1, so
\* calculate_output(base, resources) >= 0.001 * base for base >= 0.
FactorFloor ==
    /\ calc.fn \in FactorNames =>
          /\ calc.result >= 100
          /\ calc.result < 1000
          /\ calc.args[1] <= 0 => calc.result = 100
    /\ calc.fn = "calculate_output" =>
          /\ calc.result >= calc.args[1]
          /\ calc.result < 1000 * calc.args[1] \/ calc.args[1] = 0

\* calculate_output with every stock empty: exactly 0.001 * base
OutputAtTheFloor ==
    /\ calc.fn = "calculate_output"
    /\ calc.args[1] > 0
    /\ calc.args[2] = 0 /\ calc.args[3] = 0 /\ calc.args[4] = 0
    /\ calc.result = calc.args[1]

\* C19: calculate_offline_hours(current_time, cap) returns 0 when current_time <=
\* last_save_time and otherwise min((current_time - last_save_time) / 3600, cap), so the
\* result is always in [0, cap].
OfflineHoursCapped ==
    calc.fn = "calculate_offline_hours" =>
        LET last_save_time == calc.args[1]
            current_time == calc.args[2]
            cap_hours == calc.args[3]
            hours == ((current_time - last_save_time) * 1000) \div 3600
        IN  /\ current_time <= last_save_time => calc.result = 0
            /\ current_time > last_save_time =>
                  calc.result = IF hours <= cap_hours THEN hours ELSE cap_hours
            /\ calc.result >= 0
            /\ calc.result <= cap_hours

\* 100 hours offline with a cap of 72 hours gives 72 hours
OfflineHoursAtCap ==
    /\ calc.fn = "calculate_offline_hours"
    /\ calc.args = << 0, 360000, 72000 >>
    /\ calc.result = 72000

(***************************************************************************)
(* The zone operations (zones/zone.rs, zones/upgrades.rs, the storm damage *)
(* of simulate_ticks) on a town with a building site.                      *)
(***************************************************************************)
\* data/zone_template.rs default_construction_work: 10 work units
default_construction_work == 10000

WorkAmounts == {4000, 6000, 12000}
RequiredWork == {default_construction_work}

\* the saved town with its building site untouched, supplied, and half built
SiteStates ==
    { [SavedGame EXCEPT !.zones[2] = [@ EXCEPT !.materials_deposited = site[1],
                                               !.work_done = site[2]]] :
        site \in { << FALSE, 0 >>, << TRUE, 0 >>, << TRUE, 5000 >> } }

InitZone ==
    /\ state \in SiteStates
    /\ last = NoLast(state)
    /\ steps = 0
    /\ timer = NoTimer
    /\ timer_log = << >>
    /\ calc = NoCalc
    /\ roster = << >>
    /\ frame = NoFrame
    /\ agent = NoAgent
    /\ batch = NoBatch

\* Zone::apply_construction_work on one zone
ApplyConstructionWork ==
    \E i \in 1..Len(state.zones), work_amount \in WorkAmounts, required_work \in RequiredWork :
        Step("apply_construction_work",
             [index |-> i - 1, work_amount |-> work_amount, required_work |-> required_work,
              returned |-> construction_work_completes(state.zones[i], work_amount,
                                                       required_work)],
             [state EXCEPT !.zones[i] = apply_construction_work(@, work_amount, required_work)])

\* Zone::deposit_construction_materials on one zone
DepositConstructionMaterials ==
    \E i \in 1..Len(state.zones) :
        Step("deposit_construction_materials", i - 1,
             [state EXCEPT !.zones[i] = deposit_construction_materials(@)])

NextZone ==
    \/ ApplyDecay
    \/ UpdateActivity
    \/ RestoreZone
    \/ UpgradeZone
    \/ SimulateTicks
    \/ ApplyConstructionWork
    \/ DepositConstructionMaterials

SpecZone == InitZone /\ [][NextZone]_vars

\* C21: in every state reachable by any sequence of zone operations every zone has
\* 0 <= condition <= 1 and 0 <= activity <= 1.
ZoneRanges ==
    \A i \in 1..Len(state.zones) :
        /\ state.zones[i].condition >= 0 /\ state.zones[i].condition <= 1000
        /\ state.zones[i].activity >= 0 /\ state.zones[i].activity <= 1000

\* a decay larger than the condition that was left ends at 0
ConditionFlooredByDecay ==
    /\ last.op = "apply_decay"
    /\ last.pre.zones[last.arg + 1].condition > 0
    /\ last.pre.zones[last.arg + 1].condition < 450
    /\ state.zones[last.arg + 1].condition = 0

\* the zones a batch is said to mutate: not dormant, not a building site, template known
InUse(zone) ==
    ~zone.dormant /\ zone.construction_state # "UnderConstruction"
    /\ HasTemplate(zone.template_id)

\* C22: each simulate_ticks batch with num_ticks >= 1 moves the activity of every
\* non-dormant, completed zone toward the effective population by a tenth of the gap and
\* lowers its condition by natural decay.
BatchMovesZones ==
    (last.op = "simulate_ticks" /\ last.arg >= 1) =>
        \A i \in 1..Len(state.zones) :
            LET before == last.pre.zones[i]
                after == state.zones[i]
                target == (state.population * 1000) \div (state.population + 10000)
            IN  InUse(before) =>
                    /\ target - before.activity >= 10 => after.activity > before.activity
                    /\ before.condition > 0 => after.condition < before.condition

\* the zone of an apply_construction_work call, before and after
WorkedBefore == last.pre.zones[last.arg.index + 1]
WorkedAfter == state.zones[last.arg.index + 1]

\* C23: apply_construction_work on a building site without materials returns false and
\* leaves work_done, construction_state, condition and dormant unchanged for any work
\* amount; on a zone that is no building site it also changes nothing.
NoWorkWithoutMaterials ==
    (/\ last.op = "apply_construction_work"
     /\ \/ WorkedBefore.construction_state # "UnderConstruction"
        \/ ~WorkedBefore.materials_deposited) =>
        /\ ~last.arg.returned
        /\ WorkedAfter = WorkedBefore
        /\ state = last.pre

\* more work than required offered to a site without materials
WorkRefused ==
    /\ last.op = "apply_construction_work"
    /\ WorkedBefore.construction_state = "UnderConstruction"
    /\ ~WorkedBefore.materials_deposited
    /\ last.arg.work_amount > last.arg.required_work
    /\ WorkedAfter.construction_state = "UnderConstruction"
    /\ WorkedAfter.work_done = 0

UnlockedValues(tree, effect) ==
    LET Has(t) == t.unlocked /\ t.effect = effect
        picked == SelectSeq(tree, Has)
    IN  [i \in 1..Len(picked) |-> picked[i].value]

RECURSIVE ProductOf(_)
ProductOf(values) ==
    IF Len(values) = 0 THEN 1000
    ELSE (ProductOf(SubSeq(values, 1, Len(values) - 1)) * values[Len(values)]) \div 1000

RECURSIVE SumOf(_)
SumOf(values) ==
    IF Len(values) = 0 THEN 0
    ELSE SumOf(SubSeq(values, 1, Len(values) - 1)) + values[Len(values)]

ExpectedBonuses(tree) ==
    [production_multi |-> ProductOf(UnlockedValues(tree, "ProductionMulti")),
     maintenance_factor |-> ProductOf(UnlockedValues(tree, "EfficiencyMulti")),
     attractiveness_flat |-> SumOf(UnlockedValues(tree, "AttractivenessFlat")),
     housing_flat |-> SumOf(UnlockedValues(tree, "HousingGlobal"))]

\* the states a batch of last.arg ticks from last.pre can end in under the given bonuses
BatchResults(bonuses) ==
    { simulate_ticks_given(last.pre, last.arg, tick_rate_seconds, rnd, bonuses) :
        rnd \in Rolls(last.pre, last.arg * tick_rate_seconds) }

\* C25: in one simulate_ticks call the tech bonuses are taken from the tech tree as it is
\* at the start of the call, and the roster is reconciled before any agent is stepped:
\* every agent in the roster at the end, newly spawned ones included, received exactly one
\* behaviour update in the call.
BatchOrdering ==
    (last.op = "simulate_ticks" /\ last.arg >= 1) =>
        LET before == last.pre.agents
            after == state.agents
        IN  /\ \A i \in 1..Len(after) :
                  after[i].updates = (IF i <= Len(before) THEN before[i].updates ELSE 0) + 1
            /\ Len(after) <= 50
            /\ state.tech_tree = last.pre.tech_tree
            /\ \E result \in BatchResults(ExpectedBonuses(last.pre.tech_tree)) :
                  state.resources = result.resources

\* a batch that keeps agents of an earlier batch and spawns new ones
RosterGrownAndStepped ==
    /\ last.op = "simulate_ticks"
    /\ Len(last.pre.agents) > 0
    /\ Len(state.agents) > Len(last.pre.agents)
    /\ state.agents[1].updates = 2
    /\ state.agents[Len(state.agents)].updates = 1

TechTreeRespected ==
    \A i \in 1..Len(state.tech_tree) :
        (state.tech_tree[i].unlocked /\ state.tech_tree[i].parent_id # "none") =>
            \E j \in 1..Len(state.tech_tree) :
                /\ state.tech_tree[j].id = state.tech_tree[i].parent_id
                /\ state.tech_tree[j].unlocked

\* the target template of the zone's upgrade is locked by a technology not yet unlocked
UpgradeTechMissing(st, zone) ==
    /\ HasTemplate(zone.template_id)
    /\ HasTemplate(TemplateOf(zone.template_id).upgrade_to)
    /\ TemplateOf(TemplateOf(zone.template_id).upgrade_to).locked_by_tech # "none"
    /\ ~\E j \in 1..Len(st.tech_tree) :
            /\ st.tech_tree[j].id = TemplateOf(TemplateOf(zone.template_id).upgrade_to).locked_by_tech
            /\ st.tech_tree[j].unlocked

\* C28: UpgradeZone(index) never changes a zone's template or charges materials when the
\* zone is under construction, when its condition is below 0.8, or when the target
\* template is locked by a technology that is not unlocked.
UpgradePreconditions ==
    (last.op = "UpgradeZone" /\ last.arg >= 0 /\ last.arg < Len(last.pre.zones)) =>
        LET before == last.pre.zones[last.arg + 1]
        IN  (\/ before.construction_state = "UnderConstruction"
             \/ before.condition < 800
             \/ UpgradeTechMissing(last.pre, before)) =>
                /\ state.zones[last.arg + 1].template_id = before.template_id
                /\ state.resources.materials = last.pre.resources.materials

(***************************************************************************)
(* One agent under repeated Agent::update calls (simulation/agents.rs):    *)
(* at any hour of the day, and through one night.                          *)
(***************************************************************************)
MaxAgentUpdates == 2
MaxNightUpdates == 20

\* 2:00, 7:00, 10:00, 18:00: one hour of each band of the day
AgentHours == {120, 420, 600, 1080}

\* 2:00 and 22:30
NightHours == {120, 1350}

\* WorldInfo: with or without a market, a workshop and a park, and one building site
Worlds(hours) ==
    [game_hour : hours,
     markets : {<< >>, << 605000 >>},
     workshops : {<< >>, << 607000 >>},
     parks : {<< >>, << 595000 >>},
     construction_sites : {<< << 603000, 1 >> >>}]

\* WorldInfo at night, when no branch of the update reads the places
NightWorlds ==
    [game_hour : NightHours,
     markets : {<< 605000 >>},
     workshops : {<< 607000 >>},
     parks : {<< 595000 >>},
     construction_sites : {<< << 603000, 1 >> >>}]

\* the random draws of one update
AgentRolls == [work : BOOLEAN, wander : BOOLEAN, target : {604000}]

\* a spawned laborer, idle, at its home or 25 units from it, fresh or worn
StartingAgents ==
    { [AgentNew(600000, "Laborer", home) EXCEPT !.energy = e, !.hunger = h, !.social = s] :
        home \in {600000, 625000},
        e \in {FULL, 250000, 100000}, h \in {FULL, 200000}, s \in {FULL, 300000} }

\* a spawned laborer, idle, at its home or 15, 21 or 25 units from it, fresh or tired
NightAgents ==
    { [AgentNew(600000, "Laborer", home) EXCEPT !.energy = e] :
        home \in {600000, 615000, 621000, 625000}, e \in {FULL, 100000} }

InitAgent ==
    /\ state = SavedGame
    /\ agent \in StartingAgents
    /\ last = NoLast(agent)
    /\ steps = 0
    /\ timer = NoTimer
    /\ timer_log = << >>
    /\ calc = NoCalc
    /\ roster = << >>
    /\ frame = NoFrame
    /\ batch = NoBatch

\* agent.update(agent_delta, &world_info)
AgentUpdate ==
    \E world \in Worlds(AgentHours), roll \in AgentRolls :
        /\ steps < MaxAgentUpdates
        /\ agent' = agent_update(agent, agent_delta, world, roll)
        /\ last' = [op |-> "update", arg |-> [world |-> world, roll |-> roll], pre |-> agent]
        /\ steps' = steps + 1
        /\ UNCHANGED << state, timer, timer_log, batch, calc, roster, frame >>

NextAgent == AgentUpdate

SpecAgent == InitAgent /\ [][NextAgent]_vars

InitNight ==
    /\ state = SavedGame
    /\ agent \in NightAgents
    /\ last = NoLast(agent)
    /\ steps = 0
    /\ timer = NoTimer
    /\ timer_log = << >>
    /\ calc = NoCalc
    /\ roster = << >>
    /\ frame = NoFrame
    /\ batch = NoBatch

\* agent.update(agent_delta, &world_info) while the game hour is in the Night band
NightUpdate ==
    \E world \in NightWorlds, roll \in AgentRolls :
        /\ steps < MaxNightUpdates
        /\ agent' = agent_update(agent, agent_delta, world, roll)
        /\ last' = [op |-> "update", arg |-> [world |-> world, roll |-> roll], pre |-> agent]
        /\ steps' = steps + 1
        /\ UNCHANGED << state, timer, timer_log, batch, calc, roster, frame >>

NextNight == NightUpdate

\* the batches keep coming: every simulate_ticks call updates every agent of the roster
SpecNight == InitNight /\ [][NextNight]_vars /\ WF_vars(NightUpdate)

HomeDistance(a) == IF a.pos >= a.home_pos THEN a.pos - a.home_pos ELSE a.home_pos - a.pos

\* one update at night: an Idle agent leaves Idle, to GoingHome when more than 20 from
\* home and to Sleeping otherwise; a GoingHome agent sleeps when less than 10 from home
\* and walks 0.016 * speed closer otherwise
NightStep ==
    last.op = "update" =>
        /\ last.pre.state = "Idle" =>
              agent.state = IF HomeDistance(last.pre) > 20000 THEN "GoingHome" ELSE "Sleeping"
        /\ last.pre.state = "GoingHome" =>
              IF HomeDistance(last.pre) < 10000
              THEN agent.state = "Sleeping"
              ELSE /\ agent.state = "GoingHome"
                   /\ HomeDistance(agent) = HomeDistance(last.pre) - 16 * last.pre.speed
        /\ last.pre.state = "Sleeping" => agent.state = "Sleeping"

\* C29: at night an Idle agent leaves Idle in that update, to GoingHome when farther than
\* 20 units from home and to Sleeping otherwise; a GoingHome agent becomes Sleeping in the
\* first update that finds it closer than 10 units to home; under repeated updates during
\* Night every Idle agent eventually sleeps.
NightBehaviour == []NightStep /\ ((agent.state = "Idle") ~> (agent.state = "Sleeping"))

\* an agent that walked home from 25 units away and lay down
WalkedHomeToSleep ==
    /\ last.op = "update"
    /\ last.pre.state = "GoingHome"
    /\ agent.state = "Sleeping"
    /\ agent.home_pos = 625000
    /\ HomeDistance(last.pre) < 10000
    /\ steps >= 17

\* C29 with one arrival radius, the 20 units of the Idle branch: a GoingHome agent within
\* it becomes Sleeping
SleepsWithinArrivalRadius ==
    (last.op = "update" /\ last.pre.state = "GoingHome" /\ HomeDistance(last.pre) <= 20000)
        => agent.state = "Sleeping"

\* C30: an Idle agent whose energy is below the low-energy threshold heads home
\* (GoingHome, or Sleeping) in Morning, Work, Evening and Night alike, before the hunger,
\* social, work and wander branches.
LowEnergyHeadsHome ==
    (last.op = "update" /\ last.pre.state = "Idle" /\ agent.energy < 200000)
        => agent.state \in {"GoingHome", "Sleeping"}

(***************************************************************************)
(* One agent in any of its behaviour states, under Agent::update alone and *)
(* under the part of a simulate_ticks batch that acts on it (seasonal      *)
(* morale, then Agent::update).                                            *)
(***************************************************************************)
MaxBehaviourUpdates == 2

\* an update in which no draw is made, or none succeeds
NoDraw == [work |-> FALSE, wander |-> FALSE, target |-> 700000]

\* the draws of one update (it makes the draw of one arm at most): none succeeds, or the
\* chance roll succeeds and pick_random_target lands on the market or on open ground
BehaviourRolls ==
    {NoDraw} \cup [work : {TRUE}, wander : {TRUE}, target : {605000, 700000}]

\* a short batch, ten hours, and forty days
MoraleMinutes == {1, 600, 57600}

\* an idle laborer or builder, fresh or worn
IdleAgents ==
    { [AgentNew(600000, job, 600000) EXCEPT !.energy = e, !.hunger = h] :
        job \in {"Laborer", "Builder"}, e \in {FULL, 100000}, h \in {FULL, 200000} }

\* an agent 5 units from the place it walks to (the market, the park, the workshop or open
\* ground), and one still 50 units away
WanderingAgents ==
    { [become(AgentNew(target - 5000, "Laborer", 600000), "Wandering", target, 0, 0)
          EXCEPT !.hunger = need, !.social = need] :
        target \in {605000, 595000, 607000, 700000}, need \in {FULL, 400000} }
    \cup { become(AgentNew(650000, "Laborer", 600000), "Wandering", 700000, 0, 0) }

\* an agent at the start of a timed state and in its last updates
TimedAgents ==
    { [become(AgentNew(605000, "Laborer", 600000), "Shopping", 605000, d, 0)
          EXCEPT !.hunger = 400000] : d \in {2000, 32} }
    \cup { [become(AgentNew(595000, "Laborer", 600000), "Socializing", 595000, d, 0)
          EXCEPT !.social = 400000] : d \in {3000, 24} }
    \cup { [become(AgentNew(607000, "Laborer", 600000), "Working", 607000, d, 0)
          EXCEPT !.energy = 600000] : d \in {5000, 24} }

\* an agent asleep at home, exhausted, nearly rested or rested
SleepingAgents ==
    { [become(AgentNew(600000, "Laborer", 600000), "Sleeping", 0, 0, 0) EXCEPT !.energy = e] :
        e \in {100000, 890000, 896000, FULL} }

\* a builder at the site, and an agent on its way home
BusyAgents ==
    { [become(AgentNew(603000, "Builder", 600000), "Building", 603000, 0, 1)
          EXCEPT !.energy = e] : e \in {FULL, 201000} }
    \cup { [become(AgentNew(600000, "Laborer", 625000), "GoingHome", 0, 0, 0)
          EXCEPT !.spirit = 10000] }

BehaviourAgents ==
    IdleAgents \cup WanderingAgents \cup TimedAgents \cup SleepingAgents \cup BusyAgents

InitBehaviour ==
    /\ state = SavedGame
    /\ agent \in BehaviourAgents
    /\ last = NoLast(agent)
    /\ steps = 0
    /\ timer = NoTimer
    /\ timer_log = << >>
    /\ calc = NoCalc
    /\ roster = << >>
    /\ frame = NoFrame
    /\ batch = NoBatch

\* agent.update(agent_delta, &world_info)
UpdateOnce ==
    \E world \in Worlds(AgentHours), roll \in BehaviourRolls :
        /\ steps < MaxBehaviourUpdates
        /\ agent' = agent_update(agent, agent_delta, world, roll)
        /\ last' = [op |-> "update", arg |-> [world |-> world, roll |-> roll], pre |-> agent]
        /\ steps' = steps + 1
        /\ UNCHANGED << state, timer, timer_log, batch, calc, roster, frame >>

\* what one simulate_ticks batch does to an agent of the roster: the seasonal morale
\* change, then agent.update(agent_delta, &world_info); the batches are taken at night,
\* when the update makes no draw and reads no place
BatchOnAgent ==
    \E world \in NightWorlds, roll \in {NoDraw},
       season \in Seasons, game_minutes \in MoraleMinutes :
        /\ steps < MaxBehaviourUpdates
        /\ agent' = agent_update(seasonal_morale(agent, season, game_minutes),
                                 agent_delta, world, roll)
        /\ last' = [op |-> "batch",
                    arg |-> [world |-> world, roll |-> roll, season |-> season,
                             game_minutes |-> game_minutes],
                    pre |-> agent]
        /\ steps' = steps + 1
        /\ UNCHANGED << state, timer, timer_log, batch, calc, roster, frame >>

NextBehaviour == UpdateOnce \/ BatchOnAgent

SpecBehaviour == InitBehaviour /\ [][NextBehaviour]_vars

Updated == last.op \in {"update", "batch"}

\* C31: an Idle builder updated in the Work band, with a construction site in the world and
\* neither the low-energy nor the hunger branch applicable, enters Building, whatever the
\* draw of the visit-workshop branch.
BuildersBuildFirst ==
    ( /\ Updated
      /\ last.pre.state = "Idle"
      /\ last.pre.job = "Builder"
      /\ from_hour(last.arg.world.game_hour) = "Work"
      /\ Len(last.arg.world.construction_sites) > 0
      /\ agent.energy >= 200000
      /\ ~(agent.hunger < 300000 /\ Len(last.arg.world.markets) > 0) )
        => agent.state = "Building"

Arrived == Updated /\ last.pre.state = "Wandering" /\ distance(last.pre.pos, last.pre.target) < 10000

\* C34: a Wandering agent closer than 10 units to its target enters Shopping if the target
\* is a market and its hunger is below 0.5, otherwise Socializing if the target is a park
\* and its social need is below 0.5, otherwise Working if the target is a workshop, and
\* becomes Idle in every other case; farther away it keeps Wandering.
WanderingResolves ==
    /\ Arrived =>
          agent.state =
              IF is_at_location(last.pre.target, last.arg.world.markets) /\ agent.hunger < 500000
              THEN "Shopping"
              ELSE IF is_at_location(last.pre.target, last.arg.world.parks)
                      /\ agent.social < 500000
              THEN "Socializing"
              ELSE IF is_at_location(last.pre.target, last.arg.world.workshops)
              THEN "Working"
              ELSE "Idle"
    /\ (Updated /\ last.pre.state = "Wandering" /\ ~Arrived) => agent.state = "Wandering"

\* an agent reaches the workshop and starts to work
ArrivedAtWorkshop ==
    /\ Arrived
    /\ is_at_location(last.pre.target, last.arg.world.workshops)
    /\ agent.state = "Working"
    /\ agent.duration = 5000

\* C34 by category alone: on arrival Shopping at a market, Socializing at a park, Working
\* at a workshop, and Idle only at none of them
ResolvesByCategory ==
    Arrived =>
        agent.state =
            IF is_at_location(last.pre.target, last.arg.world.markets) THEN "Shopping"
            ELSE IF is_at_location(last.pre.target, last.arg.world.parks) THEN "Socializing"
            ELSE IF is_at_location(last.pre.target, last.arg.world.workshops) THEN "Working"
            ELSE "Idle"

\* C33: an agent leaves Sleeping only to Idle, only in an update that finds its energy at
\* 0.9 or more outside the Night band; at Night or below 0.9 it stays Sleeping; its energy
\* never decreases across an update spent Sleeping.
SleepExit ==
    (Updated /\ last.pre.state = "Sleeping") =>
        /\ agent.state \in {"Sleeping", "Idle"}
        /\ agent.state = "Idle" <=>
              (agent.energy >= 900000 /\ from_hour(last.arg.world.game_hour) # "Night")
        /\ agent.energy >= last.pre.energy

\* an agent that went into the update just below 0.9 and woke in the morning
WokeRested ==
    /\ Updated
    /\ last.pre.state = "Sleeping"
    /\ last.pre.energy < 900000
    /\ from_hour(last.arg.world.game_hour) = "Morning"
    /\ agent.state = "Idle"

\* C35: under any sequence of updates and batches the four needs stay in [0, 1].
NeedsInRange ==
    /\ agent.energy \in 0..FULL
    /\ agent.hunger \in 0..FULL
    /\ agent.social \in 0..FULL
    /\ agent.spirit \in 0..FULL

\* a winter batch of forty days took the spirit to the floor
SpiritFlooredByWinter ==
    /\ last.op = "batch"
    /\ last.arg.season = "Winter"
    /\ last.arg.game_minutes = 57600
    /\ last.pre.spirit > 900000
    /\ agent.spirit = 0

(***************************************************************************)
(* An agent that has just entered a timed state, updated until the state   *)
(* has run out (the hour is kept in the Night band, where an Idle agent    *)
(* goes to bed and enters no further timed state).                         *)
(***************************************************************************)
MaxTimedUpdates == 320

\* Shopping, Socializing and Working as update_wandering leaves them
ArrivedAgents == {a \in TimedAgents : a.duration >= 2000}

InitTimed ==
    /\ state = SavedGame
    /\ agent \in ArrivedAgents
    /\ last = NoLast(agent)
    /\ steps = 0
    /\ timer = NoTimer
    /\ timer_log = << >>
    /\ calc = NoCalc
    /\ roster = << >>
    /\ frame = NoFrame
    /\ batch = NoBatch

\* agent.update(agent_delta, &world_info)
TimedUpdate ==
    \E world \in NightWorlds, roll \in AgentRolls :
        /\ steps < MaxTimedUpdates
        /\ agent' = agent_update(agent, agent_delta, world, roll)
        /\ last' = [op |-> "update", arg |-> [world |-> world, roll |-> roll], pre |-> agent]
        /\ steps' = steps + 1
        /\ UNCHANGED << state, timer, timer_log, batch, calc, roster, frame >>

NextTimed == TimedUpdate

\* the batches keep coming: every simulate_ticks call updates every agent of the roster
SpecTimed == InitTimed /\ [][NextTimed]_vars /\ WF_vars(TimedUpdate)

TimedStates == {"Shopping", "Socializing", "Working"}

\* one update of a timed state: the state is kept and the duration is 0.016 less while
\* more than 0 remains; the update that leaves 0 or less ends in Idle, with hunger full
\* after Shopping and social full after Socializing
TimedStep ==
    (last.op = "update" /\ last.pre.state \in TimedStates) =>
        IF last.pre.duration - agent_delta > 0
        THEN /\ agent.state = last.pre.state
             /\ agent.duration = last.pre.duration - agent_delta
        ELSE /\ agent.state = "Idle"
             /\ last.pre.state = "Shopping" => agent.hunger = FULL
             /\ last.pre.state = "Socializing" => agent.social = FULL

\* C32: an agent in Shopping, Socializing or Working stays in that state while its remaining
\* duration is above 0 and returns to Idle, with the need restored, in the update that
\* brings the duration to 0 or less; under repeated updates every timed state ends.
TimedStatesEnd == []TimedStep /\ ((agent.state \in TimedStates) ~> (agent.state = "Idle"))

\* the 313th update of a working agent ended its five seconds of work
WorkedFiveSeconds ==
    /\ last.op = "update"
    /\ last.pre.state = "Working"
    /\ agent.state = "Idle"
    /\ steps = 313

(***************************************************************************)
(* The season state alone (simulation/seasons.rs, SeasonState::update):    *)
(* any sequence of elapsed times, in game minutes.                         *)
(***************************************************************************)
MaxSeasonUpdates == 2

\* an hour, a day, five days, thirteen days and twenty-five days
SeasonBatches == {60, 1440, 7200, 18720, 36000}

InitSeason ==
    /\ state \in StartingStates
    /\ last = NoLast(state)
    /\ steps = 0
    /\ timer = NoTimer
    /\ timer_log = << >>
    /\ calc = NoCalc
    /\ roster = << >>
    /\ frame = NoFrame
    /\ agent = NoAgent
    /\ batch = NoBatch

\* state.season_state.update(total_hours)
SeasonUpdate ==
    \E game_minutes \in SeasonBatches :
        \E rnd \in Rolls(state, game_minutes) :
            /\ steps < MaxSeasonUpdates
            /\ state' = [state EXCEPT
                            !.season_state = season_update(@, game_minutes, rnd).state]
            /\ last' = [op |-> "season_update", arg |-> game_minutes, pre |-> state]
            /\ steps' = steps + 1
            /\ UNCHANGED << timer, timer_log, batch, calc, agent, roster, frame >>

NextSeason == SeasonUpdate

SpecSeason == InitSeason /\ [][NextSeason]_vars

\* C36: after every SeasonState::update call, whatever the elapsed time,
\* 0 <= day_in_season < 12 days.
DayInSeasonInRange ==
    last.op = "season_update" =>
        /\ state.season_state.day_in_season >= 0
        /\ state.season_state.day_in_season < DAYS_PER_SEASON

\* C37: a zone under construction is dormant, in every state reached by construction work,
\* deposits, decay, activity updates, restores and the RestoreZone action.
UnderConstructionIsDormant ==
    \A i \in 1..Len(state.zones) :
        is_under_construction(state.zones[i]) => state.zones[i].dormant


\* C38: no simulate_ticks call increases the condition of any zone, whatever the zone's
\* state and the weather.
BatchNeverRepairs ==
    last.op = "simulate_ticks" =>
        \A i \in 1..Len(state.zones) : state.zones[i].condition <= last.pre.zones[i].condition

(***************************************************************************)
(* The roster with its agent ids (simulation/tick.rs, "AGENT SIMULATION"): *)
(* any sequence of target counts, any draws of rand::rand().               *)
(***************************************************************************)
MaxRosterBatches == 3

\* the largest target count explored
MaxRoster == 3

\* the values rand::rand() can return: three of them stand for the 2^32
AgentIds == 1..3

\* the spawn and despawn loops; ids[i] is the i-th spawn's draw of rand::rand() as u64
reconcile_roster(agents, target, ids) ==
    IF Len(agents) < target
    THEN agents \o [i \in 1..(target - Len(agents)) |-> [id |-> ids[i], job |-> "Laborer"]]
    ELSE SubSeq(agents, 1, target)

InitRoster ==
    /\ state = SavedGame
    /\ last = NoLast(<< >>)
    /\ steps = 0
    /\ timer = NoTimer
    /\ timer_log = << >>
    /\ calc = NoCalc
    /\ roster = << >>
    /\ frame = NoFrame
    /\ agent = NoAgent
    /\ batch = NoBatch

\* one simulate_ticks batch, as far as the roster goes
RosterBatch ==
    \E target \in 0..MaxRoster, ids \in [1..MaxRoster -> AgentIds] :
        /\ steps < MaxRosterBatches
        /\ roster' = reconcile_roster(roster, target, ids)
        /\ last' = [op |-> "reconcile", arg |-> target, pre |-> roster]
        /\ steps' = steps + 1
        /\ UNCHANGED << state, timer, timer_log, batch, calc, agent, frame >>

NextRoster == RosterBatch

SpecRoster == InitRoster /\ [][NextRoster]_vars

\* C39: no two agents of the roster share an id.
AgentIdsUnique ==
    \A i, j \in 1..Len(roster) : i # j => roster[i].id # roster[j].id

(***************************************************************************)
(* The main loop (main.rs, main): frames with any frame time and any of    *)
(* the keys that pause, change the time scale or toggle the region view.   *)
(* Times are in milliseconds, the time scale in thousandths.  Of the       *)
(* ToggleRegionView action only the scene change is followed.              *)
(***************************************************************************)
MaxFrames == 3

FrameDeltas == {400, 1200}
Keys == {"none", "Space", "Up", "Down", "M"}

\* SceneManager::update
scene_update(sm, delta) ==
    IF ~sm.is_transitioning THEN sm
    ELSE LET progress == sm.transition_progress + delta * 2
         IN  IF progress >= MILLI
             THEN [current |-> IF sm.pending_transition # "none"
                               THEN sm.pending_transition ELSE sm.current,
                   pending_transition |-> "none",
                   transition_progress |-> 0,
                   is_transitioning |-> FALSE]
             ELSE [sm EXCEPT !.transition_progress = progress]

\* SceneManager::transition_to
transition_to(sm, scene) ==
    IF scene # sm.current /\ ~sm.is_transitioning
    THEN [sm EXCEPT !.pending_transition = scene, !.is_transitioning = TRUE,
                    !.transition_progress = 0]
    ELSE sm

\* SceneManager::toggle_region_view
toggle_region_view(sm) ==
    CASE sm.current = "TownView" -> transition_to(sm, "RegionView")
      [] sm.current = "RegionView" -> transition_to(sm, "TownView")
      [] OTHER -> sm

\* SceneManager::in_town_view
in_town_view(sm) == sm.current = "TownView"

\* handle_input: the pause toggle and the time scale controls
handle_input(f, key) ==
    [f EXCEPT !.paused = IF key = "Space" THEN ~f.paused ELSE f.paused,
              !.time_scale = CASE key = "Up" -> Min(f.time_scale * 2, 64 * MILLI)
                               [] key = "Down" -> Max(f.time_scale \div 2, MILLI \div 4)
                               [] OTHER -> f.time_scale]

\* a main loop that looks at the pause flag alone
processes_ticks_unpaused(paused, sm) == ~paused

\* main: "Process game ticks (if not paused and in town view)"
processes_ticks(paused, sm) == ~paused /\ in_town_view(sm)

InitFrame ==
    /\ state \in {GameStateNew(r, s) : r \in StartingResources, s \in StartingSeasons}
    /\ last = NoLast(state)
    /\ steps = 0
    /\ timer = TickTimerNew(tick_rate_seconds * MILLI)
    /\ timer_log = << >>
    /\ calc = NoCalc
    /\ roster = << >>
    /\ frame = NoFrame
    /\ agent = NoAgent
    /\ batch = NoBatch

\* one iteration of the main loop.  timer_log gets, for every frame, the scaled frame time
\* if the frame was unpaused in town view (0 otherwise) and the ticks handed to
\* simulate_ticks
MainLoopFrame ==
    \E delta \in FrameDeltas, key \in Keys :
        LET sm == scene_update(frame.scene_manager, delta)
            f == handle_input([frame EXCEPT !.scene_manager = sm], key)
            runs == processes_ticks(f.paused, sm)
            scaled_delta == (delta * f.time_scale) \div MILLI
            tu == timer_update(timer, scaled_delta)
            ticks == IF runs THEN tu.ticks ELSE 0
        IN  /\ steps < MaxFrames
            /\ timer' = IF runs THEN tu.timer ELSE timer
            /\ \E rnd \in Rolls(state, ticks * tick_rate_seconds) :
                  state' = simulate_ticks(state, ticks, tick_rate_seconds, rnd)
            /\ frame' = [f EXCEPT !.scene_manager =
                            IF key = "M" THEN toggle_region_view(sm) ELSE sm]
            /\ timer_log' = Append(timer_log,
                                << IF ~f.paused /\ sm.current = "TownView"
                                   THEN scaled_delta ELSE 0,
                                   ticks >>)
            /\ last' = [op |-> "frame", arg |-> [delta |-> delta, key |-> key],
                        pre |-> [state |-> state, timer |-> timer]]
            /\ steps' = steps + 1
            /\ UNCHANGED << batch, calc, agent, roster >>

NextFrame == MainLoopFrame

SpecFrame == InitFrame /\ [][NextFrame]_vars

\* C40: in a frame where the game is paused or the scene is not the town view, no batch is
\* simulated and the timer keeps its accumulated remainder; the ticks processed so far and
\* the remainder add up to the scaled frame time of the unpaused town-view frames.
PauseFreezesTime ==
    last.op = "frame" =>
        /\ (frame.paused \/ frame.scene_manager.current # "TownView") =>
              /\ timer = last.pre.timer
              /\ state = last.pre.state
              /\ timer_log[Len(timer_log)][2] = 0
        /\ Returned(Len(timer_log)) * timer.tick_rate + timer.accumulated
              = Elapsed(Len(timer_log))
        /\ timer.accumulated < timer.tick_rate

\* a frame in region view, unpaused, after a frame that left a remainder in the timer
RegionViewFrame ==
    /\ last.op = "frame"
    /\ ~frame.paused
    /\ frame.scene_manager.current = "RegionView"
    /\ timer.accumulated > 0
    /\ state.game_time_hours = 0

====
